---- MODULE Spec2Model ----
(***************************************************************************)
(* Model of the AI gateway: the documentation-driven anomaly detector      *)
(* (src/src/anomaly/documentation_anomaly_detector.py), the TinyML anomaly *)
(* scorer it calls (src/src/ml/local_ai_engine.py), the dynamic protocol   *)
(* engine of the MCP server (src/src/mcp_server.py) and the device context *)
(* resolution of the hybrid gateway (src/src/gateway/hybrid_gateway.py,    *)
(* src/src/cloud/context_service.py).                                      *)
(*                                                                         *)
(* Sensor values, range bounds and thresholds are fixed-point numbers in   *)
(* tenths of a unit: 38.5 is written 385, the literal 30 of the source is  *)
(* Units(30).  Scores and confidences are fractions <<num, den>>.          *)
(***************************************************************************)
EXTENDS Integers, Sequences, FiniteSets, TLC

VARIABLES
    \* DocumentationAnomalyDetector
    anomaly_history,    \* self.anomaly_history: list of reports
    device_baselines,   \* self.device_baselines: device_id -> first observation
    pattern_history,    \* self.pattern_history: device_id -> list of readings
    ai_initialized,     \* LocalAIEngine.initialized
    now,                \* wall clock read by datetime.now(), in seconds
    calls,              \* number of detect_anomalies calls made so far
    last_call,          \* what the last detect_anomalies call saw and returned
    observed,           \* device_id -> the observations passed in, newest last
    \* MCP server protocol engine
    active_connections, \* connection_id -> connection record
    handshake,          \* implement_protocol task -> its position in the retry loop
    reads,              \* query_device task -> its position
    sockets,            \* connection_id -> datagrams waiting in the UDP socket
    sent,               \* connection_id -> ReadProperty requests sent, oldest first
    \* HybridGateway and CloudContextService
    gateway_initialized, \* HybridGateway.initialized
    classifier,         \* the device classifier's weights: features -> device type
    device_contexts,    \* HybridGateway.device_contexts: cache key -> DeviceContext
    request_cache,      \* request_cache of a CloudContextService that is kept
    resolved,           \* what each resolution did and returned, oldest first
    \* ProtocolKnowledgeBase
    protocols,          \* knowledge_base.protocols: protocol type -> ProtocolSpec
    \* BACnetSimulator and the gateway's discovery of it
    bacnet_simulator,   \* the simulator's device_id, device_name and sensor_data
    discovered,         \* the last datagram exchange with the simulator
    \* ModbusTCPSimulator
    register_map,       \* address -> value of an input or holding register
    coil_map,           \* address -> value of a coil
    modbus_exchange,    \* the last request received and the response sent
    \* VectorEmbeddingService
    embedding_service,  \* model, model_name, dimension, the cache and the index
    embedding_files,    \* filepath -> what save_embeddings pickled there
    index_log,          \* the calls made on the embedding service, oldest first
    \* PDFParser
    documentation,      \* the last text handed to the parser and what it returned
    \* LocalAIEngine query processing
    query_processor,    \* the query model's weights: features -> intent
    processed,          \* the results of process_natural_query, oldest first
    dispatched,         \* the calls of process_natural_query_dynamically, oldest first
    \* HybridGateway status and troubleshooting lookups
    lookups,            \* the answers of get_device_status and troubleshoot_device
    \* DocumentationAnomalyDetector.get_anomaly_summary
    summaries,          \* the summaries returned, oldest first
    \* MCPDashboardIntegration
    devices,            \* the entries of self.devices in insertion order
    device_counter,     \* self.device_counter
    mcp_activity_log,   \* self.mcp_activity_log
    monitor             \* where _monitor_device_status stands in its pass

detector_vars == <<anomaly_history, device_baselines, pattern_history,
                   ai_initialized, now, calls, last_call, observed>>
engine_vars == <<active_connections, handshake, reads, sockets, sent>>
resolver_vars == <<gateway_initialized, classifier, device_contexts,
                   request_cache, resolved>>
registry_vars == <<protocols>>
simulator_vars == <<bacnet_simulator, discovered>>
modbus_vars == <<register_map, coil_map, modbus_exchange>>
index_vars == <<embedding_service, embedding_files, index_log>>
parser_vars == <<documentation>>
dispatcher_vars == <<query_processor, processed, dispatched>>
gateway_vars == <<lookups>>
summary_vars == <<summaries>>
dashboard_vars == <<devices, device_counter, mcp_activity_log, monitor>>
ext_vars == <<protocols, bacnet_simulator, discovered, register_map, coil_map,
              modbus_exchange, embedding_service, embedding_files, index_log,
              documentation, query_processor, processed, dispatched,
              lookups, summaries, devices, device_counter, mcp_activity_log, monitor>>
vars == <<anomaly_history, device_baselines, pattern_history, ai_initialized,
          now, calls, last_call, observed,
          active_connections, handshake, reads, sockets, sent,
          gateway_initialized, classifier, device_contexts, request_cache,
          resolved,
          protocols, bacnet_simulator, discovered, register_map, coil_map,
          modbus_exchange, embedding_service, embedding_files, index_log,
          documentation, query_processor, processed, dispatched,
          lookups, summaries, devices, device_counter, mcp_activity_log, monitor>>

---------------------------------------------------------------------------
(* Helpers for Python dicts and lists *)

Units(x) == 10 * x

Abs(x) == IF x < 0 THEN -x ELSE x

\* dict.get(key, default)
Get(d, key, default) == IF key \in DOMAIN d THEN d[key] ELSE default

\* d[key] = value on a dict
Put(d, key, value) ==
    [k \in DOMAIN d \cup {key} |-> IF k = key THEN value ELSE d[k]]

EmptyDict == [k \in {} |-> 0]

RECURSIVE Concat(_)
Concat(lists) ==
    IF lists = <<>> THEN <<>> ELSE Head(lists) \o Concat(Tail(lists))

RECURSIVE Sum(_)
Sum(values) == IF values = <<>> THEN 0 ELSE Head(values) + Sum(Tail(values))

\* list[-n:]
LastN(list, n) ==
    IF Len(list) <= n THEN list ELSE SubSeq(list, Len(list) - n + 1, Len(list))

\* a current_data dict from optional entries (<<>> = key absent, <<v>> = value v)
MkData(t, h, lm) ==
    LET opt == [temperature |-> t, humidity |-> h, last_maintenance |-> lm]
    IN  [k \in {x \in DOMAIN opt : Len(opt[x]) = 1} |-> opt[k][1]]

---------------------------------------------------------------------------
(* Device descriptors handed to detect_anomalies *)

\* iteration order of device_spec['parameters'] and of current_data
ParamOrder == <<"temperature", "humidity">>

MaintenanceOrder == <<"sensor_calibration", "filter_replacement">>

DefaultRange == <<Units(0), Units(100)>>

\* the descriptor of the module's demo, also the one of the range scenario
HvacSpec ==
    [device_type |-> "hvac_controller",
     parameters |->
        [temperature |->
            [name |-> "Room Temperature",
             normal_range |-> <<Units(18), Units(26)>>,
             warning_range |-> <<Units(15), Units(30)>>,
             error_range |-> <<Units(10), Units(40)>>,
             troubleshooting |-> <<"Check temperature sensor calibration",
                                   "Verify HVAC system is running",
                                   "Check for air flow obstructions">>],
         humidity |->
            [name |-> "Relative Humidity",
             normal_range |-> <<Units(30), Units(60)>>,
             warning_range |-> <<Units(20), Units(70)>>,
             error_range |-> <<Units(10), Units(90)>>,
             troubleshooting |-> <<"Check humidity sensor for condensation",
                                   "Verify HVAC dehumidification settings",
                                   "Check for water leaks">>]],
     maintenance_schedule |-> [sensor_calibration |-> 90, filter_replacement |-> 30]]

\* a descriptor whose only parameter documents no ranges and no schedule
BareSpec ==
    [device_type |-> "sensor",
     parameters |-> [temperature |-> [name |-> "Temperature"]]]

Parameters(device_spec) == Get(device_spec, "parameters", EmptyDict)

\* the keys of device_spec['parameters'], in iteration order
ParamNames(device_spec) ==
    SelectSeq(ParamOrder, LAMBDA p : p \in DOMAIN Parameters(device_spec))

---------------------------------------------------------------------------
(* AnomalyDetection records *)

\* the AnomalyDetection(...) constructor; anomaly_id is the f-string
\* "{device_id}_{parts...}_{timestamp to the second}"
AnomalyDetection(device_id, id_parts, type, severity, parameter, value, expected_range, steps, maintenance, confidence) ==
    [anomaly_id |-> [device |-> device_id, parts |-> id_parts, stamp |-> now],
     anomaly_type |-> type,
     severity |-> severity,
     parameter |-> parameter,
     current_value |-> value,
     expected_range |-> expected_range,
     troubleshooting_steps |-> steps,
     maintenance_required |-> maintenance,
     detection_confidence |-> confidence,
     timestamp |-> now]

TrendSteps ==
    <<"Check sensor calibration", "Verify environmental conditions",
      "Compare with other sensors", "Schedule sensor maintenance">>

PatternSteps ==
    <<"Check sensor stability", "Verify communication quality",
      "Look for environmental interference", "Test sensor response time">>

\* f"Schedule {maintenance_type.replace('_', ' ')} immediately"
ScheduleStep(maintenance_type) ==
    IF maintenance_type = "sensor_calibration"
    THEN "Schedule sensor calibration immediately"
    ELSE "Schedule filter replacement immediately"

MaintenanceSteps(maintenance_type) ==
    <<ScheduleStep(maintenance_type), "Check device performance",
      "Review maintenance logs", "Update maintenance schedule">>

EnvironmentalSteps ==
    <<"Check HVAC system operation", "Verify ventilation",
      "Monitor for condensation", "Adjust environmental controls">>

MlSteps ==
    <<"Review sensor data patterns", "Check for environmental changes",
      "Verify sensor calibration", "Compare with historical data">>

---------------------------------------------------------------------------
(* Strategy 1: ranges *)

\* the comparisons taken with the bounds excluded from the range
OutsideRange_Exclusive(value, range) == value <= range[1] \/ value >= range[2]

\* current_value < range[0] or current_value > range[1]
OutsideRange(value, range) == value < range[1] \/ value > range[2]

\* the body of the loop of _detect_range_anomalies for one parameter
RangeReportsFor(device_id, param_name, param_spec, current_data) ==
    LET current_value == current_data[param_name]
        normal_range == Get(param_spec, "normal_range", DefaultRange)
        warning_range == Get(param_spec, "warning_range", DefaultRange)
        error_range == Get(param_spec, "error_range", DefaultRange)
        steps == Get(param_spec, "troubleshooting", <<>>)
    IN  IF OutsideRange(current_value, error_range)
        THEN <<AnomalyDetection(device_id, <<param_name>>, "value_out_of_range",
                                "critical", param_name, current_value,
                                normal_range, steps, TRUE, <<95, 100>>)>>
        ELSE IF OutsideRange(current_value, warning_range)
        THEN <<AnomalyDetection(device_id, <<param_name>>, "value_out_of_range",
                                "medium", param_name, current_value,
                                normal_range, steps, FALSE, <<85, 100>>)>>
        ELSE <<>>

_detect_range_anomalies(device_id, device_spec, current_data) ==
    LET names == ParamNames(device_spec)
    IN  Concat([i \in 1..Len(names) |->
                  IF names[i] \notin DOMAIN current_data
                  THEN <<>>
                  ELSE RangeReportsFor(device_id, names[i],
                                       Parameters(device_spec)[names[i]],
                                       current_data)])

---------------------------------------------------------------------------
(* Strategy 2: drift from the baseline *)

\* the parameters the loop of _detect_trend_anomalies does not skip
TrendParams(device_spec, current_data, baseline) ==
    SelectSeq(ParamNames(device_spec),
              LAMBDA p : p \in DOMAIN current_data /\ p \in DOMAIN baseline)

\* (current - baseline) / baseline raises ZeroDivisionError
TrendRaises(device_spec, current_data, baseline) ==
    LET names == TrendParams(device_spec, current_data, baseline)
    IN  \E i \in 1..Len(names) : baseline[names[i]] = 0

\* abs(trend_percentage) > pct, with trend_percentage = (c - b) / b * 100
TrendExceeds(current_value, baseline_value, pct) ==
    Abs(current_value - baseline_value) * 100 > pct * Abs(baseline_value)

TrendReportsFor(device_id, param_name, param_spec, current_value, baseline_value) ==
    IF TrendExceeds(current_value, baseline_value, 20)
    THEN <<AnomalyDetection(device_id, <<param_name, "trend">>, "sensor_drift",
                            IF Abs(current_value - baseline_value) * 100
                                 < 50 * Abs(baseline_value)
                            THEN "medium" ELSE "high",
                            param_name, current_value,
                            \* (baseline * 0.8, baseline * 1.2), in hundredths
                            <<baseline_value * 8, baseline_value * 12>>,
                            TrendSteps,
                            TrendExceeds(current_value, baseline_value, 50),
                            <<80, 100>>)>>
    ELSE <<>>

\* _detect_trend_anomalies once a baseline exists and no division fails
_detect_trend_anomalies(device_id, device_spec, current_data, baseline) ==
    LET names == TrendParams(device_spec, current_data, baseline)
    IN  Concat([i \in 1..Len(names) |->
                  TrendReportsFor(device_id, names[i],
                                  Parameters(device_spec)[names[i]],
                                  current_data[names[i]], baseline[names[i]])])

---------------------------------------------------------------------------
(* Strategy 3: patterns over the rolling window *)

HistoryWindow == 10

MinPatternReadings == 3

\* pattern_history[device_id] after the append and the truncation
AppendReading(history, current_data) ==
    LET appended == Append(history, [timestamp |-> now, data |-> current_data])
    IN  IF Len(appended) > HistoryWindow
        THEN LastN(appended, HistoryWindow)
        ELSE appended

\* _detect_unusual_pattern on values in tenths: variance > mean * 0.1, or a
\* jump between neighbours > mean * 0.2
_detect_unusual_pattern(values) ==
    LET n == Len(values)
        total == Sum(values)
        squares == Sum([i \in 1..n |-> values[i] * values[i]])
    IN  IF n < 3 THEN FALSE
        ELSE \/ 10 * (n * squares - total * total) > Units(1) * n * total
             \/ \E i \in 2..n : 5 * n * Abs(values[i] - values[i-1]) > total

\* _detect_pattern_anomalies, given the history already holding the reading
_detect_pattern_anomalies(device_id, device_spec, current_data, history) ==
    LET names == ParamNames(device_spec)
        values(p) == [i \in 1..Len(history) |-> Get(history[i].data, p, 0)]
    IN  IF Len(history) < MinPatternReadings THEN <<>>
        ELSE Concat([i \in 1..Len(names) |->
                  IF names[i] \notin DOMAIN current_data THEN <<>>
                  ELSE IF _detect_unusual_pattern(values(names[i]))
                  THEN <<AnomalyDetection(device_id, <<names[i], "pattern">>,
                            "pattern_anomaly", "medium", names[i],
                            current_data[names[i]],
                            Get(Parameters(device_spec)[names[i]],
                                "normal_range", DefaultRange),
                            PatternSteps, FALSE, <<75, 100>>)>>
                  ELSE <<>>])

---------------------------------------------------------------------------
(* Strategy 4: maintenance schedule *)

\* current_data['last_maintenance'] is modelled by how it parses and by the
\* whole days elapsed since it: kind "naive" is a datetime or an ISO string
\* without offset, "aware" an ISO string with 'Z' or an offset, "invalid" a
\* string datetime.fromisoformat rejects
LastMaintenance(kind, days) == [kind |-> kind, days |-> days]

MaintenanceSchedule(device_spec) == Get(device_spec, "maintenance_schedule", EmptyDict)

\* the strategy gets past its early returns
MaintenanceChecked(device_spec, current_data) ==
    /\ "last_maintenance" \in DOMAIN current_data
    /\ MaintenanceSchedule(device_spec) # EmptyDict
    /\ current_data["last_maintenance"].kind # "invalid"

\* datetime.now() - last_maintenance_date raises TypeError when the parsed date
\* carries an offset: the subtraction is outside the strategy's try block
MaintenanceRaises(device_spec, current_data) ==
    /\ MaintenanceChecked(device_spec, current_data)
    /\ current_data["last_maintenance"].kind = "aware"

_detect_maintenance_anomalies(device_id, device_spec, current_data) ==
    IF ~MaintenanceChecked(device_spec, current_data) THEN <<>>
    ELSE
    LET schedule == MaintenanceSchedule(device_spec)
        types == SelectSeq(MaintenanceOrder, LAMBDA t : t \in DOMAIN schedule)
        days_since_maintenance == current_data["last_maintenance"].days
    IN  Concat([i \in 1..Len(types) |->
                  IF days_since_maintenance >= schedule[types[i]]
                  THEN <<AnomalyDetection(device_id, <<"maintenance", types[i]>>,
                            "maintenance_overdue",
                            IF days_since_maintenance < schedule[types[i]] * 2
                            THEN "medium" ELSE "high",
                            "maintenance", days_since_maintenance,
                            <<0, schedule[types[i]]>>,
                            MaintenanceSteps(types[i]), TRUE, <<90, 100>>)>>
                  ELSE <<>>])

---------------------------------------------------------------------------
(* Strategy 5: environmental cross-check *)

_detect_environmental_anomalies(device_id, device_spec, current_data) ==
    IF /\ "temperature" \in DOMAIN current_data
       /\ "humidity" \in DOMAIN current_data
       /\ current_data["temperature"] > Units(30)
       /\ current_data["humidity"] > Units(80)
    THEN <<AnomalyDetection(device_id, <<"env_high_temp_humidity">>,
                "environmental_anomaly", "medium", "environmental",
                \* temp * humidity / 100, cut to a tenth
                (current_data["temperature"] * current_data["humidity"])
                    \div Units(100),
                <<Units(15), Units(25)>>, EnvironmentalSteps, FALSE,
                <<85, 100>>)>>
    ELSE <<>>

---------------------------------------------------------------------------
(* Strategy 6: the TinyML scorer, LocalAIEngine.detect_anomalies *)

\* score > tenths / 10, for a score <<num, den>>
ScoreAbove(score, tenths) == score[1] * 10 > tenths * score[2]

\* the sensors of sensor_data, in iteration order
Sensors(sensor_data) ==
    SelectSeq(ParamOrder, LAMBDA p : p \in DOMAIN sensor_data)

\* _infer_tinyml_anomaly_detector: the score is the output of the linear
\* model, whose weights are drawn at load time and whose inputs include the
\* time of day
_infer_tinyml_anomaly_detector(sensor_data, anomaly_score) ==
    LET is_anomaly == ScoreAbove(anomaly_score, 7)
        outside(p) ==
            IF p = "temperature"
            THEN sensor_data[p] < Units(15) \/ sensor_data[p] > Units(35)
            ELSE sensor_data[p] < Units(20) \/ sensor_data[p] > Units(80)
    IN  [is_anomaly |-> is_anomaly,
         anomaly_score |-> anomaly_score,
         \* 1.0 - abs(anomaly_score - 0.5) * 2
         confidence |-> <<anomaly_score[2]
                            - Abs(2 * anomaly_score[1] - anomaly_score[2]),
                          anomaly_score[2]>>,
         affected_sensors |->
            IF is_anomaly THEN SelectSeq(Sensors(sensor_data), outside) ELSE <<>>,
         processing_method |-> "tinyml"]

_fallback_anomaly_detection(sensor_data) ==
    LET flagged(p) ==
            IF p = "temperature"
            THEN sensor_data[p] < Units(10) \/ sensor_data[p] > Units(40)
            ELSE sensor_data[p] < Units(10) \/ sensor_data[p] > Units(90)
        anomalies == SelectSeq(Sensors(sensor_data), flagged)
    IN  [is_anomaly |-> Len(anomalies) > 0,
         anomaly_score |-> <<Len(anomalies), 3>>,
         confidence |-> <<8, 10>>,
         affected_sensors |-> anomalies,
         processing_method |-> "rule_based_fallback"]

\* LocalAIEngine.detect_anomalies
ai_engine_detect_anomalies(sensor_data, anomaly_score) ==
    IF ~ai_initialized
    THEN _fallback_anomaly_detection(sensor_data)
    ELSE _infer_tinyml_anomaly_detector(sensor_data, anomaly_score)

_score_to_severity(score) ==
    IF ScoreAbove(score, 9) THEN "critical"
    ELSE IF ScoreAbove(score, 7) THEN "high"
    ELSE IF ScoreAbove(score, 5) THEN "medium"
    ELSE "low"

_detect_ml_anomalies(device_id, current_data, anomaly_score) ==
    LET ml_result == ai_engine_detect_anomalies(current_data, anomaly_score)
        affected == ml_result.affected_sensors
    IN  IF ~ml_result.is_anomaly THEN <<>>
        ELSE [i \in 1..Len(affected) |->
                AnomalyDetection(device_id, <<"ml", affected[i]>>,
                    "pattern_anomaly", _score_to_severity(ml_result.anomaly_score),
                    affected[i], Get(current_data, affected[i], 0),
                    <<Units(0), Units(100)>>, MlSteps,
                    ScoreAbove(ml_result.anomaly_score, 8),
                    ml_result.confidence)]

---------------------------------------------------------------------------
(* DocumentationAnomalyDetector.detect_anomalies *)

Strategies == <<"range", "trend", "pattern", "maintenance", "environmental", "ml">>

Ran(reports) == [status |-> "returned", reports |-> reports]

Failed == [status |-> "raised", reports |-> <<>>]

NotRun == [status |-> "not_run", reports |-> <<>>]

\* What each strategy does with one observation, in the order detect_anomalies
\* calls them; a strategy behind one that raised is not run.
StrategyOutputs(device_id, device_spec, current_data, anomaly_score) ==
    LET first == device_id \notin DOMAIN device_baselines
        trend_raised ==
            /\ ~first
            /\ TrendRaises(device_spec, current_data, device_baselines[device_id])
        maintenance_raised ==
            /\ ~trend_raised
            /\ MaintenanceRaises(device_spec, current_data)
        history == AppendReading(Get(pattern_history, device_id, <<>>), current_data)
    IN  [range |-> Ran(_detect_range_anomalies(device_id, device_spec, current_data)),
         trend |->
            IF first THEN Ran(<<>>)
            ELSE IF trend_raised THEN Failed
            ELSE Ran(_detect_trend_anomalies(device_id, device_spec, current_data,
                                             device_baselines[device_id])),
         pattern |->
            IF trend_raised THEN NotRun
            ELSE Ran(_detect_pattern_anomalies(device_id, device_spec,
                                               current_data, history)),
         maintenance |->
            IF trend_raised THEN NotRun
            ELSE IF maintenance_raised THEN Failed
            ELSE Ran(_detect_maintenance_anomalies(device_id, device_spec,
                                                   current_data)),
         environmental |->
            IF trend_raised \/ maintenance_raised THEN NotRun
            ELSE Ran(_detect_environmental_anomalies(device_id, device_spec,
                                                     current_data)),
         ml |->
            IF trend_raised \/ maintenance_raised THEN NotRun
            ELSE Ran(_detect_ml_anomalies(device_id, current_data, anomaly_score))]

\* the except branch of detect_anomalies is taken
AnyRaised(outputs) == \E i \in 1..Len(Strategies) : outputs[Strategies[i]].status = "raised"

detect_anomalies(device_id, device_spec, current_data, anomaly_score) ==
    LET outputs == StrategyOutputs(device_id, device_spec, current_data, anomaly_score)
        anomalies ==
            IF AnyRaised(outputs) THEN <<>>
            ELSE Concat([i \in 1..Len(Strategies) |-> outputs[Strategies[i]].reports])
    IN  /\ anomaly_history' = anomaly_history \o anomalies
        /\ device_baselines' =
              IF device_id \notin DOMAIN device_baselines
              THEN Put(device_baselines, device_id, current_data)
              ELSE device_baselines
        /\ pattern_history' =
              IF outputs.pattern.status = "returned"
              THEN Put(pattern_history, device_id,
                       AppendReading(Get(pattern_history, device_id, <<>>),
                                     current_data))
              ELSE pattern_history
        /\ last_call' = [device_id |-> device_id, device_spec |-> device_spec,
                         current_data |-> current_data, outputs |-> outputs,
                         ml_score |->
                            IF outputs.ml.status = "returned"
                            THEN <<ai_engine_detect_anomalies(
                                       current_data, anomaly_score).anomaly_score>>
                            ELSE <<>>,
                         result |-> anomalies]
        /\ observed' = Put(observed, device_id,
                           LastN(Append(Get(observed, device_id, <<>>),
                                        [timestamp |-> now, data |-> current_data]),
                                 HistoryWindow))
        /\ calls' = calls + 1
        /\ UNCHANGED <<ai_initialized, now>>
        /\ UNCHANGED engine_vars
        /\ UNCHANGED resolver_vars
        /\ UNCHANGED ext_vars

\* time passes between two calls
Tick(limit) ==
    /\ now < limit
    /\ now' = now + 1
    /\ UNCHANGED <<anomaly_history, device_baselines, pattern_history,
                   ai_initialized, calls, last_call, observed>>
    /\ UNCHANGED engine_vars
    /\ UNCHANGED resolver_vars
    /\ UNCHANGED ext_vars

NoData == MkData(<<>>, <<>>, <<>>)

DetectorInit ==
    /\ anomaly_history = <<>>
    /\ device_baselines = EmptyDict
    /\ pattern_history = EmptyDict
    /\ ai_initialized \in BOOLEAN
    /\ now = 0
    /\ calls = 0
    /\ last_call = [device_id |-> "", device_spec |-> BareSpec,
                    current_data |-> NoData,
                    outputs |-> [s \in {Strategies[i] : i \in 1..Len(Strategies)}
                                   |-> NotRun],
                    ml_score |-> <<>>,
                    result |-> <<>>]
    /\ observed = EmptyDict

EngineInit ==
    /\ active_connections = EmptyDict
    /\ handshake = EmptyDict
    /\ reads = EmptyDict
    /\ sockets = EmptyDict
    /\ sent = EmptyDict

\* HybridGateway() and CloudContextService(), before initialize()
ResolverInit ==
    /\ gateway_initialized = FALSE
    /\ classifier = EmptyDict
    /\ device_contexts = EmptyDict
    /\ request_cache = EmptyDict
    /\ resolved = <<>>

---------------------------------------------------------------------------
(* Protocol knowledge base, src/src/core/protocol_knowledge.py *)

\* the members of the ProtocolType enum
ProtocolType == {"rest", "bacnet_ip", "modbus_tcp", "opc_ua"}

\* ProtocolKnowledgeBase.protocols after _load_protocol_specs; delays are in
\* tenths of a second
knowledge_base ==
    [rest |->
        [name |-> "REST API", protocol_type |-> "rest", port |-> 80,
         timing_requirements |->
            [request_timeout |-> 30, retry_attempts |-> 3, retry_delay |-> 10]],
     bacnet_ip |->
        [name |-> "BACnet IP", protocol_type |-> "bacnet_ip", port |-> 47808,
         timing_requirements |->
            [request_timeout |-> 5, retry_attempts |-> 3, retry_delay |-> 5]]]

---------------------------------------------------------------------------
(* BACnet frames built by the MCP server *)

_generate_who_is_request ==
    <<129, 10, 0, 12,  0, 0, 0, 0,  0, 0, 0, 0,
      1, 32, 255, 255,
      16, 8>>

\* the frame is the same for every object and every call
_generate_read_property_request(object_info) ==
    <<129, 10, 0, 12,  0, 0, 0, 0,  0, 0, 0, 0,
      1, 32, 255, 255,
      0, 12,
      1, 0>>

\* the byte the source labels "Invoke ID" (offset 18 of the frame)
InvokeId(request) == request[19]

\* a query is modelled by the keywords it contains ("temperature" contains
\* "temp")
_parse_bacnet_query(query) ==
    IF "temperature" \in query \/ "temp" \in query
    THEN <<[object_type |-> "AnalogInput", object_instance |-> 1,
            property |-> "PresentValue"]>>
    ELSE IF "humidity" \in query
    THEN <<[object_type |-> "AnalogInput", object_instance |-> 2,
            property |-> "PresentValue"]>>
    ELSE IF "status" \in query
    THEN <<[object_type |-> "Device", object_instance |-> 1234,
            property |-> "ObjectName"]>>
    ELSE <<>>

\* the datagram's bytes are not looked at
_parse_read_property_response(data, object_info) ==
    IF object_info.property = "PresentValue"
    THEN [value |-> "72.5", units |-> "degrees_fahrenheit",
          object_type |-> object_info.object_type,
          object_instance |-> object_info.object_instance,
          property |-> object_info.property]
    ELSE [value |-> "Unknown Device", units |-> "",
          object_type |-> object_info.object_type,
          object_instance |-> object_info.object_instance,
          property |-> object_info.property]

\* (endpoint, params) as <<[endpoint, params]>>, or <<>> for (None, {});
\* params is the value of its "type" entry, "" when it is empty
_parse_rest_query(query, endpoints) ==
    LET at(key, type) == <<[endpoint |-> endpoints[key], params |-> type]>>
        status == IF "status" \in DOMAIN endpoints THEN at("status", "") ELSE <<>>
    IN  IF "temperature" \in query \/ "temp" \in query
        THEN IF "temperature" \in DOMAIN endpoints THEN at("temperature", "")
             ELSE IF "sensors" \in DOMAIN endpoints THEN at("sensors", "temperature")
             ELSE status
        ELSE IF "humidity" \in query
        THEN IF "humidity" \in DOMAIN endpoints THEN at("humidity", "")
             ELSE IF "sensors" \in DOMAIN endpoints THEN at("sensors", "humidity")
             ELSE status
        ELSE status

---------------------------------------------------------------------------
(* The UDP socket of a BACnet session *)

\* What one sendto + recvfrom does to a socket.  The peer's answer to this
\* request arrives in time ("reply"), after the timeout ("late_reply") or
\* never ("silent"); "foreign" is a datagram from another host instead.
\* recvfrom returns the oldest waiting datagram, or times out on none.
Exchange(queue, device_address, request_no, answer, peer) ==
    LET own == [from |-> device_address, kind |-> answer, answers |-> request_no]
        foreign == [from |-> "other", kind |-> answer, answers |-> request_no]
        arrived == IF peer = "reply" THEN <<own>>
                   ELSE IF peer = "foreign" THEN <<foreign>>
                   ELSE <<>>
        waiting == queue \o arrived
        late == IF peer = "late_reply" THEN <<own>> ELSE <<>>
    IN  IF waiting = <<>>
        THEN [received |-> <<>>, queue |-> late]
        ELSE [received |-> <<Head(waiting)>>, queue |-> Tail(waiting) \o late]

---------------------------------------------------------------------------
(* implement_protocol_dynamically: the handshake and its retry loop *)

RetryAttempts(protocol) == knowledge_base[protocol].timing_requirements.retry_attempts

RetryDelay(protocol) == knowledge_base[protocol].timing_requirements.retry_delay

\* the test taken one iteration late
LastAttempt_OneMore(attempt, retry_attempts) == ~(attempt < retry_attempts)

\* "if attempt < retry_attempts - 1" is false: the failure is returned
LastAttempt(attempt, retry_attempts) == ~(attempt < retry_attempts - 1)

\* f"dynamic_{protocol}_{device_address}_{datetime.now().timestamp()}"
ConnectionId(protocol, device_address) ==
    [protocol |-> protocol, device_address |-> device_address, stamp |-> now]

\* the entry stored in active_connections; resource names the HTTP client or
\* the UDP socket, which belongs to the call that created it
Connection(task, h) ==
    [protocol |-> h.protocol, device_address |-> h.device_address,
     endpoints |-> h.endpoints, resource |-> task, status |-> "connected"]

\* a call of the tool, before its first attempt
NewHandshake(protocol, device_address, endpoints) ==
    [protocol |-> protocol, device_address |-> device_address,
     endpoints |-> endpoints, pc |-> "attempt", attempt |-> 0,
     outcomes |-> <<>>, waits |-> <<>>, registered |-> <<>>,
     result |-> "pending", closed |-> FALSE]

\* the call returned before any attempt
Rejected(protocol, device_address, why) ==
    [NewHandshake(protocol, device_address, EmptyDict) EXCEPT
        !.pc = "done", !.result = why]

\* an attempt failed in a branch that retries: sleep and go round the loop
\* again, or return the failure on the last attempt; leaving the loop returns
\* "Max retry attempts exceeded" (after sock.close() for BACnet)
Retried(h, outcome) ==
    LET tried == [h EXCEPT !.outcomes = Append(@, outcome)]
    IN  IF LastAttempt(h.attempt, RetryAttempts(h.protocol))
        THEN [tried EXCEPT !.pc = "done", !.result = outcome]
        ELSE IF h.attempt + 1 < RetryAttempts(h.protocol)
        THEN [tried EXCEPT !.attempt = @ + 1,
                           !.waits = Append(@, RetryDelay(h.protocol))]
        ELSE [tried EXCEPT !.attempt = @ + 1,
                           !.waits = Append(@, RetryDelay(h.protocol)),
                           !.pc = "done", !.result = "max_retries",
                           !.closed = (h.protocol = "bacnet_ip")]

\* an attempt failed in a branch that returns at once
GaveUp(h, outcome) ==
    [h EXCEPT !.outcomes = Append(@, outcome), !.pc = "done", !.result = outcome]

\* active_connections[connection_id] = {...}
Registered(h) ==
    [h EXCEPT !.registered = Append(@, ConnectionId(h.protocol, h.device_address))]

Succeeded(h, outcome) ==
    [h EXCEPT !.outcomes = Append(@, outcome), !.pc = "done", !.result = "success"]

\* one iteration of the loop of _implement_rest_dynamically, from the answer
\* to client.get: 200 stores the connection and returns it; the body of a 200
\* that is not the JSON it claims to be raises after the store; any other
\* status and any exception are retried
RestAttempt(h, response) ==
    IF response = "ok" THEN Succeeded(Registered(h), response)
    ELSE IF response = "ok_bad_json" THEN Retried(Registered(h), response)
    ELSE Retried(h, response)

\* one iteration of the loop of _implement_bacnet_dynamically, from what
\* recvfrom gave (<<>> = socket.timeout) or from the error sendto raised
BacnetAttempt(h, received, send_failed) ==
    IF send_failed THEN Retried(h, "os_error")
    ELSE IF received = <<>> THEN Retried(h, "timeout")
    ELSE IF received[1].from = h.device_address
    THEN Succeeded(Registered(h), "i_am")
    ELSE GaveUp(h, "unexpected_sender")

\* active_connections after an attempt of task that left the call as h
Stored(task, before, h) ==
    IF Len(h.registered) > Len(before.registered)
    THEN Put(active_connections, h.registered[Len(h.registered)], Connection(task, h))
    ELSE active_connections

\* the socket work of one BACnet attempt and the iteration that follows it
BacnetRound(task, h, peer) ==
    LET queue == Get(sockets, task, <<>>)
        requests == Get(sent, task, <<>>)
        failed == (peer = "send_error")
        ex == Exchange(queue, h.device_address, Len(requests) + 1, "i_am", peer)
        after == BacnetAttempt(h, IF failed THEN <<>> ELSE ex.received, failed)
    IN  /\ handshake' = Put(handshake, task, after)
        /\ active_connections' = Stored(task, h, after)
        /\ sockets' = Put(sockets, task, IF failed THEN queue ELSE ex.queue)
        /\ sent' = Put(sent, task,
                       IF failed THEN requests
                       ELSE Append(requests, _generate_who_is_request))

\* call_tool("implement_protocol_dynamically"): the protocol is looked up in
\* the registry, the REST client sends its first GET, the BACnet socket makes
\* its first blocking exchange; for any other registered protocol
\* _implement_protocol_dynamically answers "implementation not yet generated"
implement_protocol(protocol_name, device_address, endpoints, peer) ==
    LET task == Cardinality(DOMAIN handshake) + 1
    IN  /\ IF protocol_name \notin ProtocolType
           THEN /\ handshake' = Put(handshake, task,
                        Rejected(protocol_name, device_address, "invalid_protocol"))
                /\ UNCHANGED <<active_connections, sockets, sent>>
           ELSE IF protocol_name \notin DOMAIN protocols
           THEN /\ handshake' = Put(handshake, task,
                        Rejected(protocol_name, device_address, "not_found"))
                /\ UNCHANGED <<active_connections, sockets, sent>>
           ELSE IF protocol_name = "rest"
           THEN /\ handshake' = Put(handshake, task,
                        NewHandshake(protocol_name, device_address, endpoints))
                /\ UNCHANGED <<active_connections, sockets, sent>>
           ELSE IF protocol_name = "bacnet_ip"
           THEN BacnetRound(task,
                            NewHandshake(protocol_name, device_address, EmptyDict),
                            peer)
           ELSE /\ handshake' = Put(handshake, task,
                        Rejected(protocol_name, device_address, "not_generated"))
                /\ UNCHANGED <<active_connections, sockets, sent>>
        /\ UNCHANGED reads
        /\ UNCHANGED detector_vars
        /\ UNCHANGED resolver_vars
        /\ UNCHANGED ext_vars

\* the answer to the GET of a REST handshake arrives
rest_response(task, response) ==
    /\ task \in DOMAIN handshake
    /\ handshake[task].protocol = "rest"
    /\ handshake[task].pc = "attempt"
    /\ LET after == RestAttempt(handshake[task], response)
       IN  /\ handshake' = Put(handshake, task, after)
           /\ active_connections' = Stored(task, handshake[task], after)
    /\ UNCHANGED <<reads, sockets, sent>>
    /\ UNCHANGED detector_vars
    /\ UNCHANGED resolver_vars
    /\ UNCHANGED ext_vars

\* a BACnet handshake wakes from its retry sleep and makes the next exchange
bacnet_retry(task, peer) ==
    /\ task \in DOMAIN handshake
    /\ handshake[task].protocol = "bacnet_ip"
    /\ handshake[task].pc = "attempt"
    /\ BacnetRound(task, handshake[task], peer)
    /\ UNCHANGED reads
    /\ UNCHANGED detector_vars
    /\ UNCHANGED resolver_vars
    /\ UNCHANGED ext_vars

---------------------------------------------------------------------------
(* query_device: reads on an established connection *)

\* a call of the tool that has not returned yet
NewRead(connection_id, query) ==
    [connection_id |-> connection_id, query |-> query, status |-> "in_flight",
     result |-> "pending", target |-> <<>>, request_no |-> 0, answered |-> 0,
     data |-> <<>>]

Finished(read, result) == [read EXCEPT !.status = "done", !.result = result]

\* _query_bacnet_device_dynamically: the request frame is sent and recvfrom
\* blocks for the next datagram; nothing in the datagram is compared with the
\* request
BacnetRead(read, connection, peer) ==
    LET object_info == _parse_bacnet_query(read.query)
        socket == connection.resource
        queue == Get(sockets, socket, <<>>)
        requests == Get(sent, socket, <<>>)
        failed == (peer = "send_error")
        ex == Exchange(queue, connection.device_address, Len(requests) + 1,
                       "ack", peer)
        asked == [read EXCEPT !.target = object_info,
                              !.request_no = Len(requests) + 1]
    IN  IF object_info = <<>>
        THEN [read |-> Finished(read, "no_object"), queue |-> queue,
              requests |-> requests]
        ELSE IF failed
        THEN [read |-> Finished([read EXCEPT !.target = object_info], "os_error"),
              queue |-> queue, requests |-> requests]
        ELSE
        [read |->
            IF ex.received = <<>> THEN Finished(asked, "timeout")
            ELSE IF ex.received[1].from = connection.device_address
            THEN Finished([asked EXCEPT
                            !.answered = ex.received[1].answers,
                            !.data = <<_parse_read_property_response(
                                          ex.received[1], object_info[1])>>],
                          "success")
            ELSE Finished(asked, "unexpected_sender"),
         queue |-> ex.queue,
         requests |-> Append(requests,
                             _generate_read_property_request(object_info[1]))]

\* call_tool("query_device"): the connection is looked up; a BACnet read runs
\* to its end without yielding, a REST read yields in client.get
query_device(connection_id, query, peer) ==
    LET q == Cardinality(DOMAIN reads) + 1
        read == NewRead(connection_id, query)
    IN  /\ IF connection_id \notin DOMAIN active_connections
           THEN /\ reads' = Put(reads, q, Finished(read, "not_found"))
                /\ UNCHANGED <<sockets, sent>>
           ELSE LET connection == active_connections[connection_id]
                IN  IF connection.protocol = "rest"
                    THEN LET endpoint == _parse_rest_query(query, connection.endpoints)
                         IN  /\ reads' = Put(reads, q,
                                    IF endpoint = <<>>
                                    THEN Finished(read, "no_endpoint")
                                    ELSE [read EXCEPT !.target = endpoint])
                             /\ UNCHANGED <<sockets, sent>>
                    ELSE LET round == BacnetRead(read, connection, peer)
                         IN  /\ reads' = Put(reads, q, round.read)
                             /\ sockets' = Put(sockets, connection.resource, round.queue)
                             /\ sent' = Put(sent, connection.resource, round.requests)
        /\ UNCHANGED <<active_connections, handshake>>
        /\ UNCHANGED detector_vars
        /\ UNCHANGED resolver_vars
        /\ UNCHANGED ext_vars

\* the answer to the GET of a REST read arrives: 200 is a success, any other
\* status and any exception are returned as errors
rest_read_response(q, response) ==
    /\ q \in DOMAIN reads
    /\ reads[q].status = "in_flight"
    /\ reads' = Put(reads, q,
                    Finished(reads[q], IF response = "ok" THEN "success" ELSE response))
    /\ UNCHANGED <<active_connections, handshake, sockets, sent>>
    /\ UNCHANGED detector_vars
    /\ UNCHANGED resolver_vars
    /\ UNCHANGED ext_vars

---------------------------------------------------------------------------
(* ProtocolKnowledgeBase: the registry of ProtocolSpec objects *)

\* a ProtocolSpec built from one entry of the JSON document; the enum member
\* made from the key becomes its protocol_type
ProtocolSpec(protocol_type, spec_data) ==
    [name |-> spec_data.name, protocol_type |-> protocol_type,
     port |-> spec_data.port,
     timing_requirements |-> spec_data.timing_requirements]

\* the loop of from_json over data.items(): ProtocolType(protocol_name)
\* raises ValueError on a name that is no member, spec_data[...] raises
\* KeyError on a missing key, and either leaves the entries stored so far
RECURSIVE Imported(_, _)
Imported(registry, items) ==
    IF items = <<>> THEN registry
    ELSE LET protocol_name == items[1].key
             spec_data == items[1].value
         IN  IF protocol_name \notin ProtocolType THEN registry
             ELSE IF spec_data.missing # {} THEN registry
             ELSE Imported(Put(registry, protocol_name,
                               ProtocolSpec(protocol_name, spec_data)),
                           Tail(items))

\* ProtocolKnowledgeBase.from_json on the global knowledge_base; json_data
\* is the parsed document, its entries in document order
from_json(json_data) ==
    /\ protocols' = Imported(protocols, json_data)
    /\ UNCHANGED <<detector_vars, engine_vars, resolver_vars>>
    /\ UNCHANGED <<gateway_vars, summary_vars, dashboard_vars>>
    /\ UNCHANGED <<simulator_vars, modbus_vars, index_vars, parser_vars,
                   dispatcher_vars>>

---------------------------------------------------------------------------
(* BACnetSimulator, src/simulators/bacnet_simulator.py, and its discovery *)
(* Sensor values of the simulator are hundredths: 72.5 is 7250.            *)

\* BACnetSimulator.__init__
BACnetSimulator(device_id, device_name) ==
    [device_id |-> device_id, device_name |-> device_name,
     sensor_data |-> [temperature |-> 7250, humidity |-> 4520,
                      pressure |-> 101325]]

\* the last two bytes of the datagram decide
_parse_request_type(data) ==
    IF Len(data) >= 2 /\ SubSeq(data, Len(data) - 1, Len(data)) = <<16, 8>>
    THEN "who_is"
    ELSE IF Len(data) >= 2 /\ SubSeq(data, Len(data) - 1, Len(data)) = <<0, 12>>
    THEN "read_property"
    ELSE "unknown"

\* the I-Am frame: header, NPDU and the two APDU bytes; neither
\* self.device_id nor self.device_name is written into it
_create_i_am_response(simulator) ==
    <<129, 10, 0, 12,  0, 0, 0, 0,  0, 0, 0, 0,
      1, 32, 255, 255,
      16, 0>>

_create_read_property_response(request_data) ==
    <<129, 10, 0, 12,  0, 0, 0, 0,  0, 0, 0, 0,
      1, 32, 255, 255,
      48, 12>>

\* the datagram sent back, <<>> for None (nothing is sent)
_process_request(simulator, data) ==
    IF _parse_request_type(data) = "who_is"
    THEN <<_create_i_am_response(simulator)>>
    ELSE IF _parse_request_type(data) = "read_property"
    THEN <<_create_read_property_response(data)>>
    ELSE <<>>

\* sensor_data after _create_i_am_response has drawn new values
SensorData(temperature, humidity, pressure) ==
    [temperature |-> temperature, humidity |-> humidity, pressure |-> pressure]

\* the gateway's decoder: data is not read
_parse_i_am_response(data) ==
    [device_id |-> 1234, device_name |-> "Dynamic BACnet Device", vendor_id |-> 0]

\* a simulator is started with the given identity
start_simulator(device_id, device_name) ==
    /\ bacnet_simulator' = BACnetSimulator(device_id, device_name)
    /\ UNCHANGED discovered
    /\ UNCHANGED <<detector_vars, engine_vars, resolver_vars>>
    /\ UNCHANGED <<gateway_vars, summary_vars, dashboard_vars>>
    /\ UNCHANGED <<registry_vars, modbus_vars, index_vars, parser_vars,
                   dispatcher_vars>>

\* one round of the discovery loop of _implement_bacnet_dynamically against
\* the simulator: sendto(who_is_request), the simulator's _process_request,
\* recvfrom and _parse_i_am_response; drawn is what random.uniform gave
who_is_exchange(drawn) ==
    LET request == _generate_who_is_request
        response == _process_request(bacnet_simulator, request)
    IN  /\ bacnet_simulator' =
              IF _parse_request_type(request) = "who_is"
              THEN [bacnet_simulator EXCEPT !.sensor_data = drawn]
              ELSE bacnet_simulator
        /\ discovered' =
              <<[simulator |-> bacnet_simulator.device_id,
                 request |-> request, response |-> response,
                 device_info |-> IF response = <<>> THEN <<>>
                                 ELSE <<_parse_i_am_response(response[1])>>,
                 read |-> <<>>]>>
        /\ UNCHANGED <<detector_vars, engine_vars, resolver_vars>>
        /\ UNCHANGED <<gateway_vars, summary_vars, dashboard_vars>>
        /\ UNCHANGED <<registry_vars, modbus_vars, index_vars, parser_vars,
                       dispatcher_vars>>

\* _query_bacnet_device_dynamically against the simulator, on the session the
\* discovery established: sendto(request), the simulator's _process_request
\* (which sends only a response it built), recvfrom: a datagram or the
\* socket's timeout
read_property_exchange(query) ==
    LET object_info == _parse_bacnet_query(query)
        request == IF object_info = <<>> THEN <<>>
                   ELSE _generate_read_property_request(object_info[1])
        response == IF object_info = <<>> THEN <<>>
                    ELSE _process_request(bacnet_simulator, request)
    IN  /\ discovered # <<>>
        /\ discovered[1].device_info # <<>>
        /\ discovered' =
              <<[simulator |-> bacnet_simulator.device_id,
                 request |-> request, response |-> response,
                 device_info |-> discovered[1].device_info,
                 read |-> <<[target |-> object_info,
                             seen_as |-> IF object_info = <<>> THEN "not_sent"
                                         ELSE _parse_request_type(request),
                             result |-> IF object_info = <<>> THEN "no_object"
                                        ELSE IF response = <<>> THEN "timeout"
                                        ELSE "success"]>>]>>
        /\ UNCHANGED bacnet_simulator
        /\ UNCHANGED <<detector_vars, engine_vars, resolver_vars>>
        /\ UNCHANGED <<gateway_vars, summary_vars, dashboard_vars>>
        /\ UNCHANGED <<registry_vars, modbus_vars, index_vars, parser_vars,
                       dispatcher_vars>>

---------------------------------------------------------------------------
(* ModbusTCPSimulator, src/simulators/modbus_simulator.py                  *)
(* Frames are sequences of bytes; data[a:b] of the source is               *)
(* SubSeq(data, a + 1, b).  The value of a float register is kept in       *)
(* hundredths: 22.5 is 2250.                                               *)

\* struct.pack('>H', x)
Pack16(x) == <<x \div 256, x % 256>>

\* struct.unpack('>H', two bytes)[0]
Unpack16(bytes) == bytes[1] * 256 + bytes[2]

\* self.device_info["unit_id"]
UnitId == 1

\* the "type" of the entries of self.register_map
RegisterType ==
    [a \in (30001..30008) \cup (40001..40006) |->
        IF a \in {30006, 30008, 40003, 40005, 40006} THEN "int" ELSE "float"]

\* the "value" of the entries of self.register_map after __init__
InitialRegisters ==
    (30001 :> 2250) @@ (30002 :> 2310) @@ (30003 :> 250) @@ (30004 :> 4520) @@
    (30005 :> 80) @@ (30006 :> 1450) @@ (30007 :> 1530) @@ (30008 :> 1) @@
    (40001 :> 2500) @@ (40002 :> 200) @@ (40003 :> 1) @@ (40004 :> 3000) @@
    (40005 :> 30) @@ (40006 :> 19423)

\* the "value" of the entries of self.coil_map after __init__
InitialCoils ==
    (1 :> TRUE) @@ (2 :> FALSE) @@ (3 :> FALSE) @@ (4 :> FALSE) @@ (5 :> TRUE)

\* the "value" of the entries of self.discrete_input_map, never written
discrete_input_map ==
    (10001 :> FALSE) @@ (10002 :> FALSE) @@ (10003 :> TRUE) @@
    (10004 :> TRUE) @@ (10005 :> FALSE)

\* hundredths v for which the double v / 100.0 * 100 lies below v, among the
\* values written in this model (there are 4586 of them below 65536)
LossyHundredths == {29, 57, 58, 65280}

\* int(float_val * 100) of a float register holding v hundredths
Scaled(v) == IF v \in LossyHundredths THEN v - 1 ELSE v

\* error_code | 0x80 of a byte
HighBitSet(byte) == IF byte >= 128 THEN byte ELSE byte + 128

\* struct.pack('>HHHBB', transaction_id, 0, 3, unit_id, error_code | 0x80)
create_error_response(transaction_id, error_code) ==
    Pack16(transaction_id) \o Pack16(0) \o Pack16(3) \o
    <<UnitId, HighBitSet(error_code)>>

\* the words sent for the registers start..start+quantity-1: two for a float
\* register, one for an int register, 0 for an address not in the map
RECURSIVE RegisterWords(_, _, _)
RegisterWords(registers, start, quantity) ==
    IF quantity = 0 THEN <<>>
    ELSE LET words ==
                 IF start \notin DOMAIN registers THEN <<0>>
                 ELSE IF RegisterType[start] = "float"
                 THEN <<(Scaled(registers[start]) \div 65536) % 65536,
                        Scaled(registers[start]) % 65536>>
                 ELSE <<registers[start]>>
         IN  words \o RegisterWords(registers, start + 1, quantity - 1)

RECURSIVE PackWords(_)
PackWords(words) ==
    IF words = <<>> THEN <<>> ELSE Pack16(words[1]) \o PackWords(Tail(words))

\* the header of a normal response and its byte count; struct.pack('B', ...)
\* raises for a count above 255, which the handler answers with 0x04
ReadResponse(transaction_id, function_code, byte_count, payload) ==
    IF byte_count > 255 THEN create_error_response(transaction_id, 4)
    ELSE Pack16(transaction_id) \o Pack16(0) \o Pack16(byte_count + 3) \o
         <<UnitId, function_code, byte_count>> \o payload

\* the body shared by read_holding_registers and read_input_registers:
\* first and limit are the numbers of the range test
ReadRegisters(data, transaction_id, function_code, first, limit) ==
    IF Len(data) < 12 THEN create_error_response(transaction_id, 4)
    ELSE LET start_address == Unpack16(SubSeq(data, 9, 10))
             quantity == Unpack16(SubSeq(data, 11, 12))
             values == RegisterWords(register_map, start_address, quantity)
         IN  IF start_address < first \/ start_address + quantity > limit
             THEN create_error_response(transaction_id, 2)
             ELSE ReadResponse(transaction_id, function_code, Len(values) * 2,
                               PackWords(values))

read_holding_registers(data, transaction_id) ==
    ReadRegisters(data, transaction_id, 3, 40001, 40007)

read_input_registers(data, transaction_id) ==
    ReadRegisters(data, transaction_id, 4, 30001, 30009)

\* byte_val of the eight bits from position i
RECURSIVE BitByte(_, _, _)
BitByte(bits, i, j) ==
    IF j = 8 THEN 0
    ELSE (IF i + j < Len(bits) /\ bits[i + j + 1] THEN 2 ^ j ELSE 0)
         + BitByte(bits, i, j + 1)

\* the bytes packed from the list of bit values
PackBits(bits) ==
    [k \in 1..((Len(bits) + 7) \div 8) |-> BitByte(bits, 8 * (k - 1), 0)]

\* the body shared by read_coils and read_discrete_inputs
ReadBits(data, transaction_id, function_code, map, first, limit) ==
    IF Len(data) < 12 THEN create_error_response(transaction_id, 4)
    ELSE LET start_address == Unpack16(SubSeq(data, 9, 10))
             quantity == Unpack16(SubSeq(data, 11, 12))
             bits == [i \in 1..quantity |-> Get(map, start_address + i - 1, FALSE)]
         IN  IF start_address < first \/ start_address + quantity > limit
             THEN create_error_response(transaction_id, 2)
             ELSE ReadResponse(transaction_id, function_code,
                               (quantity + 7) \div 8, PackBits(bits))

read_coils(data, transaction_id) ==
    ReadBits(data, transaction_id, 1, coil_map, 1, 6)

read_discrete_inputs(data, transaction_id) ==
    ReadBits(data, transaction_id, 2, discrete_input_map, 10001, 10006)

\* write_single_register: any address of register_map is written; the frame
\* is echoed.  A float register takes value / 100.0
write_single_register(data, transaction_id) ==
    IF Len(data) < 12
    THEN [response |-> create_error_response(transaction_id, 4),
          register_map |-> register_map]
    ELSE LET address == Unpack16(SubSeq(data, 9, 10))
             value == Unpack16(SubSeq(data, 11, 12))
         IN  IF address \notin DOMAIN register_map
             THEN [response |-> create_error_response(transaction_id, 2),
                   register_map |-> register_map]
             ELSE [response |-> data,
                   register_map |-> [register_map EXCEPT ![address] = value]]

\* write_single_coil: 0xFF00 switches the coil on, any other value off
write_single_coil(data, transaction_id) ==
    IF Len(data) < 12
    THEN [response |-> create_error_response(transaction_id, 4),
          coil_map |-> coil_map]
    ELSE LET address == Unpack16(SubSeq(data, 9, 10))
             value == Unpack16(SubSeq(data, 11, 12))
         IN  IF address \notin DOMAIN coil_map
             THEN [response |-> create_error_response(transaction_id, 2),
                   coil_map |-> coil_map]
             ELSE [response |-> data,
                   coil_map |-> [coil_map EXCEPT ![address] = (value = 65280)]]

\* the response process_modbus_request returns for a frame
ModbusResponse(data) ==
    IF Len(data) < 8 THEN create_error_response(1, 1)
    ELSE LET transaction_id == Unpack16(SubSeq(data, 1, 2))
             protocol_id == Unpack16(SubSeq(data, 3, 4))
             function_code == data[8]
         IN  IF protocol_id # 0 THEN create_error_response(transaction_id, 1)
             ELSE IF function_code = 3 THEN read_holding_registers(data, transaction_id)
             ELSE IF function_code = 4 THEN read_input_registers(data, transaction_id)
             ELSE IF function_code = 1 THEN read_coils(data, transaction_id)
             ELSE IF function_code = 2 THEN read_discrete_inputs(data, transaction_id)
             ELSE IF function_code = 6
             THEN write_single_register(data, transaction_id).response
             ELSE IF function_code = 5
             THEN write_single_coil(data, transaction_id).response
             ELSE create_error_response(transaction_id, 1)

\* handle_client receives a frame: process_modbus_request answers it and the
\* two write functions update the maps
process_modbus_request(data) ==
    LET served == Len(data) >= 8 /\ Unpack16(SubSeq(data, 3, 4)) = 0
        transaction_id == Unpack16(SubSeq(data, 1, 2))
    IN  /\ modbus_exchange' = <<[request |-> data, response |-> ModbusResponse(data)]>>
        /\ register_map' =
              IF served /\ data[8] = 6
              THEN write_single_register(data, transaction_id).register_map
              ELSE register_map
        /\ coil_map' =
              IF served /\ data[8] = 5
              THEN write_single_coil(data, transaction_id).coil_map
              ELSE coil_map
        /\ UNCHANGED <<detector_vars, engine_vars, resolver_vars>>
        /\ UNCHANGED <<gateway_vars, summary_vars, dashboard_vars>>
        /\ UNCHANGED <<registry_vars, simulator_vars, index_vars, parser_vars,
                       dispatcher_vars>>

---------------------------------------------------------------------------
(* VectorEmbeddingService, src/src/vector/embedding_service.py              *)
(* A vector is known by the model that made it, the text it encodes and its *)
(* length.                                                                  *)

\* SentenceTransformer(model_name).get_sentence_embedding_dimension()
Dimension(model) == IF model = "all-MiniLM-L6-v2" THEN 384 ELSE 768

\* self.model.encode(text, convert_to_numpy=True)
Encode(model, text) == [by |-> model, text |-> text, length |-> Dimension(model)]

\* VectorEmbeddingService.__init__
VectorEmbeddingService(model_name) ==
    [model |-> model_name, model_name |-> model_name,
     dimension |-> Dimension(model_name),
     embedding_cache |-> EmptyDict, device_embeddings |-> EmptyDict]

\* generate_embedding: the cached result when cache_key is given and known,
\* else a new result, remembered under cache_key when one is given
generate_embedding(service, text, cache_key) ==
    IF cache_key # <<>> /\ cache_key[1] \in DOMAIN service.embedding_cache
    THEN [result |-> service.embedding_cache[cache_key[1]],
          embedding_cache |-> service.embedding_cache]
    ELSE LET result == [text |-> text,
                        embedding |-> Encode(service.model, text),
                        model_name |-> service.model_name,
                        dimension |-> service.dimension]
         IN  [result |-> result,
              embedding_cache |->
                 IF cache_key # <<>>
                 THEN Put(service.embedding_cache, cache_key[1], result)
                 ELSE service.embedding_cache]

\* device_info.get('device_id', 'unknown')
DeviceIdOf(device_info) ==
    IF device_info.device_id = <<>> THEN "unknown" ELSE device_info.device_id[1]

\* the text parts built from the fields of device_info, in order
DeviceText(device_info) ==
    <<<<"Manufacturer", device_info.manufacturer>>,
      <<"Model", device_info.model>>,
      <<"Protocol", device_info.protocol>>>>

\* generate_device_embedding: the text is embedded under the cache key
\* f"device_{device_id}"
generate_device_embedding(service, device_info) ==
    generate_embedding(service, DeviceText(device_info),
                       <<[device |-> DeviceIdOf(device_info)]>>)

\* what save_embeddings pickles
Pickled(service) ==
    [model_name |-> service.model_name, dimension |-> service.dimension,
     device_embeddings |-> service.device_embeddings,
     embedding_cache |-> service.embedding_cache]

\* the service is constructed, in a process that finds the files of earlier
\* ones
new_service(model_name) ==
    /\ embedding_service' = VectorEmbeddingService(model_name)
    /\ index_log' = Append(index_log, [op |-> "init", replaced |-> FALSE,
                                       device_info |-> <<>>])
    /\ UNCHANGED embedding_files
    /\ UNCHANGED <<detector_vars, engine_vars, resolver_vars>>
    /\ UNCHANGED <<gateway_vars, summary_vars, dashboard_vars>>
    /\ UNCHANGED <<registry_vars, simulator_vars, modbus_vars, parser_vars,
                   dispatcher_vars>>

add_device_to_index(device_info) ==
    LET device_id == DeviceIdOf(device_info)
        generated == generate_device_embedding(embedding_service, device_info)
    IN  /\ embedding_service' =
              [embedding_service EXCEPT
                  !.embedding_cache = generated.embedding_cache,
                  !.device_embeddings =
                      Put(@, device_id,
                          [embedding |-> generated.result.embedding,
                           device_info |-> device_info])]
        /\ index_log' = Append(index_log,
              [op |-> "add",
               replaced |-> device_id \in DOMAIN embedding_service.device_embeddings,
               device_info |-> <<device_info>>])
        /\ UNCHANGED embedding_files
        /\ UNCHANGED <<detector_vars, engine_vars, resolver_vars>>
        /\ UNCHANGED <<gateway_vars, summary_vars, dashboard_vars>>
        /\ UNCHANGED <<registry_vars, simulator_vars, modbus_vars, parser_vars,
                       dispatcher_vars>>

save_embeddings(filepath) ==
    /\ embedding_files' = Put(embedding_files, filepath, Pickled(embedding_service))
    /\ index_log' = Append(index_log, [op |-> "save", replaced |-> FALSE,
                                       device_info |-> <<>>])
    /\ UNCHANGED embedding_service
    /\ UNCHANGED <<detector_vars, engine_vars, resolver_vars>>
    /\ UNCHANGED <<gateway_vars, summary_vars, dashboard_vars>>
    /\ UNCHANGED <<registry_vars, simulator_vars, modbus_vars, parser_vars,
                   dispatcher_vars>>

\* load_embeddings: a missing file is a warning; else the four entries of the
\* pickle replace the service's own, the loaded model stays
load_embeddings(filepath) ==
    /\ embedding_service' =
          IF filepath \notin DOMAIN embedding_files THEN embedding_service
          ELSE LET data == embedding_files[filepath]
               IN  [embedding_service EXCEPT
                       !.model_name = data.model_name,
                       !.dimension = data.dimension,
                       !.device_embeddings = data.device_embeddings,
                       !.embedding_cache = data.embedding_cache]
    /\ index_log' = Append(index_log, [op |-> "load", replaced |-> FALSE,
                                       device_info |-> <<>>])
    /\ UNCHANGED embedding_files
    /\ UNCHANGED <<detector_vars, engine_vars, resolver_vars>>
    /\ UNCHANGED <<gateway_vars, summary_vars, dashboard_vars>>
    /\ UNCHANGED <<registry_vars, simulator_vars, modbus_vars, parser_vars,
                   dispatcher_vars>>

---------------------------------------------------------------------------
(* PDFParser, src/src/pdf/pdf_parser.py                                     *)
(* The text of a page is the sequence of its lines; every line ends with    *)
(* ";" and a newline.  ";" is outside every character class of the parser's *)
(* patterns, so a match never runs from one line into the next and the      *)
(* matches of a text are the matches of its lines.  A string that the       *)
(* source formats from pieces is the sequence of the pieces.                *)

\* len(line), the ";" included
Characters(line) ==
    CASE line = "Manufacturer: Honeywell;" -> 24
      [] line = "Model: T6 Pro;" -> 14
      [] line = "Protocol: BACnet IP;" -> 20
      [] line = "Object Type: AI Instance: 1;" -> 28
      [] line = "Fault E001: Sensor failure;" -> 27
      [] line = "Calibration: every 6 months;" -> 28
      [] line = "Endpoint: /api/temperature;" -> 27
      [] line = "Problem: no reading;" -> 20
      [] line = "It measures temperature and humidity;" -> 37
      [] line = "Installation guide for the wall unit;" -> 37

\* len(text): every line and its newline
Length(text) == Sum([i \in 1..Len(text) |-> Characters(text[i]) + 1])

\* str.lower() and str.replace(' ', '_') on the strings the lines hold
Lower(s) ==
    CASE s = "Honeywell" -> "honeywell"
      [] s = "T6 Pro" -> "t6 pro"
      [] s = "BACnet IP" -> "bacnet ip"
      [] s = "MANUAL.PDF" -> "manual.pdf"
      [] s = "REST" -> "rest"
      [] s = "Modbus" -> "modbus"
      [] s = "OPCUA" -> "opcua"
      [] OTHER -> s

Underscored(s) == IF s = "t6 pro" THEN "t6_pro" ELSE s

\* word in s, for the strings the lines hold
Contains(s, word) ==
    \/ s = "bacnet ip" /\ word = "bacnet"
    \/ s = "Endpoint: /api/temperature;" /\ word = "temperature"
    \/ s = "It measures temperature and humidity;"
          /\ word \in {"temperature", "humidity"}

\* s.endswith('.pdf'), for the paths handed to parse_pdf
EndsWithPdf(s) == s \in {"manual.pdf", "missing.pdf"}

\* int(digits)
IntOf(digits) ==
    CASE digits = "1" -> 1
      [] digits = "6" -> 6
      [] digits = "001" -> 1

\* the pattern lists of the five extractors, by the name of the list
PatternCount(patterns) == IF patterns = "bacnet_patterns" THEN 2 ELSE 3

\* re.finditer(patterns[k], line, re.IGNORECASE): the groups of every match of
\* the k-th pattern of a list in one line
finditer(patterns, k, line) ==
    CASE patterns = "manufacturer_patterns" /\ k = 1
            /\ line = "Manufacturer: Honeywell;" -> << <<"Honeywell">> >>
      [] patterns = "model_patterns" /\ k = 1
            /\ line = "Model: T6 Pro;" -> << <<"T6 Pro">> >>
      [] patterns = "protocol_patterns" /\ k = 1
            /\ line = "Protocol: BACnet IP;" -> << <<"BACnet IP">> >>
      [] patterns = "bacnet_patterns" /\ k = 1
            /\ line = "Object Type: AI Instance: 1;" -> << <<"AI", "1">> >>
      [] patterns = "bacnet_patterns" /\ k = 2
            /\ line = "Model: T6 Pro;" -> << <<"T", "6", "Pro">> >>
      [] patterns = "bacnet_patterns" /\ k = 2
            /\ line = "Fault E001: Sensor failure;"
            -> << <<"E", "001", "Sensor failure">> >>
      [] patterns = "bacnet_patterns" /\ k = 2
            /\ line = "Calibration: every 6 months;"
            -> << <<"every", "6", "months">> >>
      [] patterns = "rest_patterns" /\ k = 1
            /\ line = "Endpoint: /api/temperature;" -> << <<"/api/temperature">> >>
      [] patterns = "rest_patterns" /\ k = 2
            /\ line = "Endpoint: /api/temperature;" -> << <<"/temperature">> >>
      [] patterns = "error_patterns" /\ k = 2
            /\ line = "Fault E001: Sensor failure;"
            -> << <<"E001", "Sensor failure">> >>
      [] patterns = "troubleshooting_patterns" /\ k = 3
            /\ line = "Problem: no reading;" -> << <<"no reading">> >>
      [] patterns = "maintenance_patterns" /\ k = 2
            /\ line = "Calibration: every 6 months;" -> << <<"every 6 months">> >>
      [] OTHER -> <<>>

\* for pattern in patterns: for match in re.finditer(pattern, text): the
\* matches in the order the loops meet them
Matches(patterns, text) ==
    Concat([k \in 1..PatternCount(patterns) |->
              Concat([i \in 1..Len(text) |-> finditer(patterns, k, text[i])])])

\* for pattern in patterns: match = re.search(pattern, text); break on a match
Search(patterns, text) ==
    LET matches == Matches(patterns, text)
    IN  IF matches = <<>> THEN <<>> ELSE <<matches[1][1]>>

\* _extract_device_info: the keys a pattern found, and the generated device_id
_extract_device_info(text) ==
    LET manufacturer == Search("manufacturer_patterns", text)
        model == Search("model_patterns", text)
        found == Search("protocol_patterns", text)
        protocol ==
            IF found = <<>> THEN <<>>
            ELSE LET p == Lower(found[1])
                 IN  IF Contains(p, "bacnet") THEN <<"BACnet">>
                     ELSE IF Contains(p, "modbus") THEN <<"Modbus">>
                     ELSE IF Contains(p, "rest") \/ Contains(p, "http")
                          THEN <<"REST">>
                     ELSE IF Contains(p, "opc") THEN <<"OPC-UA">>
                     ELSE <<p>>
        matched == Search("device_type_patterns", text)
        device_type == IF matched = <<>> THEN <<>> ELSE <<Lower(matched[1])>>
        slug(value) ==
            Underscored(Lower(IF value = <<>> THEN "unknown" ELSE value[1]))
    IN  [manufacturer |-> manufacturer, model |-> model, protocol |-> protocol,
         device_type |-> device_type,
         device_id |-> <<slug(manufacturer), "_", slug(model)>>]

DeviceParameter(name, type, units, range_min, range_max, description, object_type, object_instance) ==
    [name |-> name, type |-> type, units |-> units, range_min |-> range_min,
     range_max |-> range_max, default_value |-> <<>>,
     description |-> description, object_type |-> object_type,
     object_instance |-> object_instance]

\* the parameter built from one match of a BACnet object pattern
BacnetParameter(groups) ==
    DeviceParameter(IF Len(groups) > 2 THEN <<groups[3]>>
                    ELSE <<"Parameter_", groups[2]>>,
                    IF groups[1] = "AI" THEN "analog_input" ELSE "unknown",
                    <<>>, <<>>, <<>>, <<>>, <<groups[1]>>,
                    <<IntOf(groups[2])>>)

\* the parameter built from one match of a REST endpoint pattern
RestParameter(groups) ==
    DeviceParameter(<<"API_", groups[1]>>, "rest_endpoint", <<>>, <<>>, <<>>,
                    << <<"REST API endpoint: ", groups[1]>> >>, <<>>, <<>>)

\* 'word' in text.lower()
Mentions(text, word) == \E i \in 1..Len(text) : Contains(text[i], word)

\* the generic parameters made when no pattern matched; ranges in whole units
GenericParameters(text) ==
    (IF Mentions(text, "temperature")
     THEN <<DeviceParameter(<<"temperature">>, "analog_input", <<"celsius">>,
                            <<-40>>, <<85>>, << <<"Temperature reading">> >>,
                            <<>>, <<>>)>>
     ELSE <<>>)
    \o (IF Mentions(text, "humidity")
        THEN <<DeviceParameter(<<"humidity">>, "analog_input", <<"percent">>,
                               <<0>>, <<100>>,
                               << <<"Relative humidity reading">> >>,
                               <<>>, <<>>)>>
        ELSE <<>>)
    \o (IF Mentions(text, "pressure")
        THEN <<DeviceParameter(<<"pressure">>, "analog_input", <<"pa">>,
                               <<0>>, <<100000>>, << <<"Pressure reading">> >>,
                               <<>>, <<>>)>>
        ELSE <<>>)

\* the parameters that come from matches of the BACnet and REST patterns
ParametersFound(text) ==
    LET bacnet == Matches("bacnet_patterns", text)
        rest == Matches("rest_patterns", text)
    IN  [i \in 1..Len(bacnet) |-> BacnetParameter(bacnet[i])]
        \o [i \in 1..Len(rest) |-> RestParameter(rest[i])]

_extract_parameters(text) ==
    LET parameters == ParametersFound(text)
    IN  IF parameters = <<>> THEN GenericParameters(text) ELSE parameters

DeviceErrorCode(code, description) ==
    [code |-> code, description |-> description, troubleshooting |-> <<>>]

common_errors ==
    <<DeviceErrorCode("E001", "Communication timeout - Check network connectivity"),
      DeviceErrorCode("E002", "Sensor reading out of range - Verify sensor calibration"),
      DeviceErrorCode("E003", "Device not responding - Check power and connections"),
      DeviceErrorCode("E004", "Configuration error - Verify device settings"),
      DeviceErrorCode("E005", "Maintenance required - Schedule device maintenance")>>

\* the error codes that come from matches of the error patterns
ErrorCodesFound(text) ==
    LET matches == Matches("error_patterns", text)
    IN  [i \in 1..Len(matches) |-> DeviceErrorCode(matches[i][1], matches[i][2])]

_extract_error_codes(text) ==
    LET error_codes == ErrorCodesFound(text)
    IN  IF error_codes = <<>> THEN common_errors ELSE error_codes

_extract_troubleshooting(text) ==
    LET matches == Matches("troubleshooting_patterns", text)
        troubleshooting == [i \in 1..Len(matches) |-> matches[i][1]]
    IN  IF troubleshooting = <<>>
        THEN <<"Check device power and connections",
               "Verify network connectivity",
               "Check sensor calibration and placement",
               "Review device configuration settings",
               "Contact manufacturer support if issues persist">>
        ELSE troubleshooting

\* the requirements that come from matches of the maintenance patterns
RequirementsFound(text) ==
    LET matches == Matches("maintenance_patterns", text)
    IN  [i \in 1..Len(matches) |-> matches[i][1]]

_extract_maintenance_info(text) ==
    [schedule |-> "monthly",
     intervals |-> [calibration |-> "6 months", cleaning |-> "3 months",
                    replacement |-> "2 years"],
     requirements |-> <<"Regular calibration check", "Sensor cleaning",
                        "Connection inspection">> \o RequirementsFound(text)]

\* _extract_text_comprehensive: PyMuPDF, then pdfplumber and PyPDF2 while the
\* text is shorter than 100 characters; each library returns the text of the
\* pages and the text so far is kept.  raised: the ValueError of a text
\* shorter than 50 characters
_extract_text_comprehensive(pages) ==
    LET fitz == pages
        pdfplumber == IF Length(fitz) < 100 THEN fitz \o pages ELSE fitz
        text_content ==
            IF Length(pdfplumber) < 100 THEN pdfplumber \o pages
            ELSE pdfplumber
    IN  [raised |-> Length(text_content) < 50, text_content |-> text_content]

ParsedDeviceDocumentation(device_info, parameters, error_codes, troubleshooting, maintenance, raw_text) ==
    LET get(value) == IF value = <<>> THEN "unknown" ELSE value[1]
    IN  [device_id |-> device_info.device_id,
         device_type |-> get(device_info.device_type),
         manufacturer |-> get(device_info.manufacturer),
         model |-> get(device_info.model),
         protocol |-> get(device_info.protocol),
         parameters |-> parameters, error_codes |-> error_codes,
         troubleshooting_steps |-> troubleshooting,
         maintenance_schedule |-> maintenance, raw_text |-> raw_text]

\* the outcome of PDFParser.parse_pdf(pdf_path) over the files on disk (a dict
\* from path to page text): the exception raised, or the parsed documentation
Parsed(files, pdf_path) ==
    IF pdf_path \notin DOMAIN files
    THEN [raised |-> "FileNotFoundError", parsed |-> <<>>]
    ELSE IF ~EndsWithPdf(Lower(pdf_path))
    THEN [raised |-> "ValueError", parsed |-> <<>>]
    ELSE LET extracted == _extract_text_comprehensive(files[pdf_path])
             text_content == extracted.text_content
         IN  IF extracted.raised
             THEN [raised |-> "ValueError", parsed |-> <<>>]
             ELSE [raised |-> "",
                   parsed |-> <<ParsedDeviceDocumentation(
                                   _extract_device_info(text_content),
                                   _extract_parameters(text_content),
                                   _extract_error_codes(text_content),
                                   _extract_troubleshooting(text_content),
                                   _extract_maintenance_info(text_content),
                                   text_content)>>]

\* parse_pdf as a step of the ingestion: documentation holds the last call
parse_pdf(files, pdf_path) ==
    /\ LET outcome == Parsed(files, pdf_path)
       IN  documentation' = <<[pdf_path |-> pdf_path, files |-> files,
                               raised |-> outcome.raised,
                               parsed |-> outcome.parsed]>>
    /\ UNCHANGED <<detector_vars, engine_vars, resolver_vars>>
    /\ UNCHANGED <<gateway_vars, summary_vars, dashboard_vars>>
    /\ UNCHANGED <<registry_vars, simulator_vars, modbus_vars, index_vars,
                   dispatcher_vars>>

---------------------------------------------------------------------------
(* The query dispatcher of LocalAIEngine, src/src/ml/local_ai_engine.py     *)
(* A feature that the source keeps as a float is a number of tenths (the    *)
(* word features) or a fraction <<num, den>> (the flags and ratios); the    *)
(* character codes of features 0..31 are the characters themselves.         *)

\* stem in word, for the words of the queries: the stems and keywords of the
\* source that occur in each word
Stems(word) ==
    CASE word = "compare" -> {"compare"}
      [] word = "device" -> {"device"}
      [] word = "humidity" -> {"humid", "humidity"}
      [] word = "pressure" -> {"press", "pressure"}
      [] word = "room" -> {"room"}
      [] word = "set" -> {"set"}
      [] word = "status" -> {"status"}
      [] word = "temperature" -> {"temp", "temperature"}
      [] word = "trend" -> {"trend"}
      [] OTHER -> {}

\* what the source reads of the text of a query: query[:32], len(query),
\* query.lower().split(), the number of letters, digits and spaces, the marks
\* and prefixes it tests, and the digits of re.search(r'room\s+(\d+)')
Scan(query) ==
    CASE query = "" ->
          [first32 |-> "", length |-> 0,
             words |-> <<>>,
             alpha |-> 0, digits |-> 0, spaces |-> 0, upper |-> FALSE,
             marks |-> {}, last |-> "", prefixes |-> {},
             room |-> <<>>]
      [] query = "what is the temperature in room 5?" ->
          [first32 |-> "what is the temperature in room ", length |-> 34,
             words |-> <<"what", "is", "the", "temperature", "in", "room", "5?">>,
             alpha |-> 26, digits |-> 1, spaces |-> 6, upper |-> FALSE,
             marks |-> {"?"}, last |-> "?", prefixes |-> {"what"},
             room |-> <<"5">>]
      [] query = "show humidity" ->
          [first32 |-> "show humidity", length |-> 13,
             words |-> <<"show", "humidity">>,
             alpha |-> 12, digits |-> 0, spaces |-> 1, upper |-> FALSE,
             marks |-> {}, last |-> "y", prefixes |-> {"show"},
             room |-> <<>>]
      [] query = "device status" ->
          [first32 |-> "device status", length |-> 13,
             words |-> <<"device", "status">>,
             alpha |-> 12, digits |-> 0, spaces |-> 1, upper |-> FALSE,
             marks |-> {}, last |-> "s", prefixes |-> {},
             room |-> <<>>]
      [] query = "set temperature to 72" ->
          [first32 |-> "set temperature to 72", length |-> 21,
             words |-> <<"set", "temperature", "to", "72">>,
             alpha |-> 16, digits |-> 2, spaces |-> 3, upper |-> FALSE,
             marks |-> {}, last |-> "2", prefixes |-> {"set"},
             room |-> <<>>]
      [] query = "compare pressure trend" ->
          [first32 |-> "compare pressure trend", length |-> 22,
             words |-> <<"compare", "pressure", "trend">>,
             alpha |-> 20, digits |-> 0, spaces |-> 2, upper |-> FALSE,
             marks |-> {}, last |-> "d", prefixes |-> {},
             room |-> <<>>]

\* 'word' in query.lower(): no keyword of the source holds a space, so it lies
\* within one word of the query
InQuery(query, word) ==
    \E i \in 1..Len(Scan(query).words) : word \in Stems(Scan(query).words[i])

\* _extract_query_features: the 64 features in their three groups
_extract_query_features(query) ==
    LET q == Scan(query)
        words == q.words
        count(stem) == Cardinality({i \in 1..Len(words) : stem \in Stems(words[i])})
        word_features ==
            <<q.length, Len(words), count("temp"), count("humid"),
              count("press"), count("status"), count("set"), count("get"),
              count("room"), count("device"), count("hvac"), count("energy"),
              count("anomal"), count("optim"), count("bacnet"), count("rest")>>
        flag(condition) == IF condition THEN <<1, 1>> ELSE <<0, 1>>
        ratio(n) == IF q.length = 0 THEN <<0, 1>> ELSE <<n, q.length>>
    IN  [chars |-> q.first32,
         words |-> [i \in 1..16 |->
                       IF word_features[i] > 10 THEN 10 ELSE word_features[i]],
         extra |-> <<flag("?" \in q.marks), flag("!" \in q.marks),
                     flag(q.digits > 0), flag(q.upper), ratio(q.alpha),
                     ratio(q.digits), ratio(q.spaces), flag(q.last = "?"),
                     flag("what" \in q.prefixes), flag("how" \in q.prefixes),
                     flag("show" \in q.prefixes), flag("get" \in q.prefixes),
                     flag("set" \in q.prefixes), flag(InQuery(query, "compare")),
                     flag(InQuery(query, "trend")), flag(InQuery(query, "all"))>>]

\* np.zeros(64)
ZeroFeatures ==
    [chars |-> "", words |-> [i \in 1..16 |-> 0],
     extra |-> [i \in 1..16 |-> <<0, 1>>]]

intent_classes ==
    <<"get_temperature", "get_humidity", "get_pressure", "get_status",
      "set_value", "compare_data", "get_trend", "general_query">>

\* TinyMLModel.predict, _softmax and _scores_to_intent: the argmax of W x + 0
\* for weights W drawn at load time, so a fixed function of the features.  All
\* scores of the zero vector are equal and argmax gives the first class; drawn
\* is the class the weights give to features not seen before
predict(features, drawn) ==
    IF features = ZeroFeatures THEN intent_classes[1]
    ELSE Get(query_processor, features, drawn)

\* the rule-based classifier
_classify_intent(query) ==
    IF \E word \in {"temperature", "temp", "heat"} : InQuery(query, word)
    THEN "get_temperature"
    ELSE IF \E word \in {"humidity", "moisture"} : InQuery(query, word)
    THEN "get_humidity"
    ELSE IF \E word \in {"pressure", "psi"} : InQuery(query, word)
    THEN "get_pressure"
    ELSE IF \E word \in {"status", "state", "health"} : InQuery(query, word)
    THEN "get_status"
    ELSE IF \E word \in {"set", "change", "update"} : InQuery(query, word)
    THEN "set_value"
    ELSE "general_query"

_extract_entities(query) ==
    [device_type |-> <<>>,
     location |-> IF InQuery(query, "room") /\ Scan(query).room # <<>>
                  THEN << <<"room_", Scan(query).room[1]>> >>
                  ELSE <<>>,
     parameter |-> IF InQuery(query, "temperature") THEN <<"temperature">>
                   ELSE IF InQuery(query, "humidity") THEN <<"humidity">>
                   ELSE IF InQuery(query, "pressure") THEN <<"pressure">>
                   ELSE <<>>,
     value |-> <<>>]

ReadProperty(endpoint) ==
    [action |-> "read_property", protocol |-> "rest", endpoint |-> endpoint,
     parameters |-> EmptyDict]

_generate_protocol_actions(intent, entities) ==
    IF intent = "get_temperature" THEN <<ReadProperty("/api/temperature")>>
    ELSE IF intent = "get_humidity" THEN <<ReadProperty("/api/humidity")>>
    ELSE IF intent = "get_status" THEN <<ReadProperty("/status")>>
    ELSE <<>>

\* the dict that process_natural_query returns, without its clock readings
\* (timestamp, latency_ms); a key the rule-based result lacks is <<>>
QueryResult(query, intent, entities, protocol_actions, processing_method, model_used, model_size_kb) ==
    [success |-> TRUE, query |-> query, intent |-> intent,
     entities |-> entities, protocol_actions |-> protocol_actions,
     processing_method |-> processing_method, model_used |-> model_used,
     model_size_kb |-> model_size_kb]

_fallback_query_processing(query) ==
    LET intent == _classify_intent(query)
        entities == _extract_entities(query)
        protocol_actions == _generate_protocol_actions(intent, entities)
    IN  QueryResult(query, intent, entities, protocol_actions,
                    "rule_based_fallback", <<>>, <<>>)

\* _infer_tinyml_query_model; model_size_kb is 64 * 8 * 4 / 1024
_infer_tinyml_query_model(query, drawn) ==
    LET features == _extract_query_features(query)
        intent == predict(features, drawn)
        entities == _extract_entities(query)
        protocol_actions == _generate_protocol_actions(intent, entities)
    IN  [intent |-> intent, entities |-> entities,
         protocol_actions |-> protocol_actions, model_size_kb |-> 2]

\* what LocalAIEngine.process_natural_query returns: the rule-based path
\* while the engine is not initialized, else the TinyML path, which does not
\* raise
NaturalQueryResult(query, drawn) ==
    LET result == _infer_tinyml_query_model(query, drawn)
    IN  IF ~ai_initialized THEN _fallback_query_processing(query)
        ELSE QueryResult(query, result.intent, result.entities,
                         result.protocol_actions, "tinyml",
                         <<"TinyML Query Processor">>, <<result.model_size_kb>>)

\* the weights as far as they are known after the query
Inferred(query, drawn) ==
    LET features == _extract_query_features(query)
    IN  IF ai_initialized /\ features # ZeroFeatures
           /\ features \notin DOMAIN query_processor
        THEN Put(query_processor, features, drawn)
        ELSE query_processor

\* LocalAIEngine.process_natural_query called on its own
process_natural_query(query, drawn) ==
    /\ processed' = Append(processed, NaturalQueryResult(query, drawn))
    /\ query_processor' = Inferred(query, drawn)
    /\ UNCHANGED dispatched
    /\ UNCHANGED <<detector_vars, engine_vars, resolver_vars>>
    /\ UNCHANGED <<gateway_vars, summary_vars, dashboard_vars>>
    /\ UNCHANGED <<registry_vars, simulator_vars, modbus_vars, index_vars,
                   parser_vars>>

\* the words of f"Get {parameter}" that the query parsers look for
GetQuery(parameter) ==
    IF parameter = "temperature" THEN {"temperature", "temp"}
    ELSE IF parameter \in {"humidity", "status"} THEN {parameter}
    ELSE {}

\* _execute_protocol_action on a REST connection: the query is built from
\* action.get('parameter', 'data') and handed to _query_rest_device_dynamically;
\* response is the answer to its GET
_execute_protocol_action(connection, action, response) ==
    IF action.action = "read_property"
    THEN LET query == GetQuery(IF "parameter" \in DOMAIN action
                               THEN action.parameter ELSE "data")
             endpoint == _parse_rest_query(query, connection.endpoints)
         IN  [query |-> query, endpoint |-> endpoint,
              success |-> endpoint # <<>> /\ response = "ok",
              error |-> IF endpoint = <<>> THEN "no_endpoint"
                        ELSE IF response = "ok" THEN "" ELSE response]
    ELSE [query |-> {}, endpoint |-> <<>>, success |-> FALSE,
          error |-> "unknown_action"]

\* _process_natural_query_dynamically: every action of the plan is executed on
\* every connection of the action's protocol.  A plan holds at most one action
\* and its protocol is "rest", so the executions are keyed by the connection;
\* executed keeps all of them, results those that succeeded.  responses are
\* the answers of the devices to the GETs of this call
process_natural_query_dynamically(query, drawn, responses) ==
    \E ai_result \in {NaturalQueryResult(query, drawn)} :
    LET plan == ai_result.protocol_actions
        matching ==
            {connection_id \in DOMAIN active_connections :
                \E i \in 1..Len(plan) :
                   active_connections[connection_id].protocol = plan[i].protocol}
        executed ==
            [connection_id \in matching |->
                _execute_protocol_action(active_connections[connection_id],
                                         plan[1], responses[connection_id])]
        results == [connection_id \in {c \in matching : executed[c].success} |->
                       [protocol |-> active_connections[connection_id].protocol,
                        action |-> plan[1], result |-> executed[connection_id]]]
    IN  /\ dispatched' =
              Append(dispatched,
                     [query |-> query, ai_analysis |-> ai_result,
                      connections |-> active_connections,
                      executed |-> executed, results |-> results,
                      success |-> DOMAIN results # {},
                      error |-> IF DOMAIN active_connections = {}
                                THEN "no_active_connections"
                                ELSE IF DOMAIN results = {} THEN "no_response"
                                ELSE ""])
        /\ processed' = Append(processed, ai_result)
        /\ query_processor' = Inferred(query, drawn)
        /\ UNCHANGED <<detector_vars, engine_vars, resolver_vars>>
        /\ UNCHANGED <<gateway_vars, summary_vars, dashboard_vars>>
        /\ UNCHANGED <<registry_vars, simulator_vars, modbus_vars, index_vars,
                       parser_vars>>

---------------------------------------------------------------------------
(* DocumentationAnomalyDetector.get_anomaly_summary *)

\* "device_id in a.anomaly_id": the str test finds device_id anywhere in the
\* text f"{device}_{parts}_{timestamp}"; for the ids below the text holds it
\* exactly when the id it begins with does
Occurs(device_id, anomaly_id) ==
    <<device_id, anomaly_id.device>> \in
        {<<"hvac_001", "hvac_001">>, <<"hvac_001", "hvac_0010">>,
         <<"hvac_0010", "hvac_0010">>, <<"ac_001", "hvac_001">>,
         <<"ac_001", "hvac_0010">>, <<"ac_001", "ac_001">>,
         <<"sensor_7", "sensor_7">>}

\* the counts dict built by "counts[k] = counts.get(k, 0) + 1" over a list
Counts(list, key(_)) ==
    [k \in {key(list[i]) : i \in 1..Len(list)} |->
        Cardinality({i \in 1..Len(list) : key(list[i]) = k})]

\* the dict get_anomaly_summary returns; at is the length the history had
Summary(device_id) ==
    LET device_anomalies ==
            SelectSeq(anomaly_history, LAMBDA a : Occurs(device_id, a.anomaly_id))
        severity(a) == a.severity
        type(a) == a.anomaly_type
    IN  IF device_anomalies = <<>>
        THEN [total_anomalies |-> 0]
        ELSE [total_anomalies |-> Len(device_anomalies),
              severity_breakdown |-> Counts(device_anomalies, severity),
              type_breakdown |-> Counts(device_anomalies, type),
              latest_anomaly |->
                  device_anomalies[Len(device_anomalies)].timestamp,
              critical_anomalies |->
                  Cardinality({i \in 1..Len(device_anomalies) :
                                  device_anomalies[i].severity = "critical"})]

get_anomaly_summary(device_id) ==
    /\ summaries' = Append(summaries,
          [device_id |-> device_id, at |-> Len(anomaly_history),
           summary |-> Summary(device_id)])
    /\ UNCHANGED <<detector_vars, engine_vars, resolver_vars>>
    /\ UNCHANGED <<registry_vars, simulator_vars, modbus_vars, index_vars,
                   parser_vars, dispatcher_vars, gateway_vars, dashboard_vars>>

---------------------------------------------------------------------------
(* MCPDashboardIntegration, src/src/integration/mcp_dashboard_integration.py *)
(* self.devices is a dict: its entries are kept in insertion order, pop       *)
(* leaves a dead entry behind, and an iterator walks the entries by index,    *)
(* raising RuntimeError when the dict's size is not the size it started with  *)
(* or when it finds an entry after it has returned as many as it started      *)
(* with.  A coroutine runs without interruption from one await to the next.   *)
(* A device id f"device_{n}" is <<"device_", n>>.                             *)

\* _get_simulator_url: <<>> is None
_get_simulator_url(protocol) ==
    IF Lower(protocol) = "rest" THEN <<"http://localhost:8001">>
    ELSE IF Lower(protocol) = "bacnet" THEN <<"http://localhost:8002">>
    ELSE IF Lower(protocol) = "modbus" THEN <<"http://localhost:8003">>
    ELSE <<>>

\* the indexes of the entries that are in the dict
InDict(entries) == {i \in 1..Len(entries) : ~entries[i].removed}

\* the ids registered in the dict
Registered_ids(entries) == {entries[i].id : i \in InDict(entries)}

\* the monitor between two passes; start, refreshed and removed tell what its
\* last pass saw: the ids registered when it began, the ids whose status it
\* wrote, and the ids removed while it ran
Sleeping(pass, start, refreshed, removed, outcome) ==
    [pc |-> "sleeping", pass |-> pass, index |-> 0, used |-> 0, len |-> 0,
     start |-> start, refreshed |-> refreshed, removed |-> removed,
     outcome |-> outcome]

\* the for loop of _monitor_device_status from the entry at index on, up to
\* the next await of a health check, the end of the dict (sleep 10) or the
\* RuntimeError of the iterator (the outer except, sleep 15).  used is the
\* size the dict had when the iterator was made, len the number of items the
\* iterator has yet to return.
RECURSIVE _monitor_device_status(_, _)
_monitor_device_status(entries, m) ==
    LET later == {j \in InDict(entries) : j > m.index}
        j == CHOOSE k \in later : \A l \in later : k <= l
    IN  IF m.used # Cardinality(InDict(entries))
        THEN Sleeping(m.pass, m.start, m.refreshed, m.removed, "RuntimeError")
        ELSE IF later = {}
        THEN Sleeping(m.pass, m.start, m.refreshed, m.removed, "completed")
        ELSE IF m.len = 0
        THEN Sleeping(m.pass, m.start, m.refreshed, m.removed, "RuntimeError")
        ELSE IF _get_simulator_url(entries[j].protocol) = <<>>
        THEN _monitor_device_status(entries,
                 [m EXCEPT !.index = j, !.len = m.len - 1])
        ELSE [m EXCEPT !.pc = "checking", !.index = j, !.len = m.len - 1]

\* the monitor wakes from its sleep and starts a pass over self.devices
monitor_pass ==
    /\ monitor.pc = "sleeping"
    /\ monitor' = _monitor_device_status(devices,
          [pc |-> "checking", pass |-> monitor.pass + 1, index |-> 0,
           used |-> Cardinality(InDict(devices)),
           len |-> Cardinality(InDict(devices)),
           start |-> Registered_ids(devices), refreshed |-> {},
           removed |-> {}, outcome |-> "running"])
    /\ UNCHANGED <<devices, device_counter, mcp_activity_log>>
    /\ UNCHANGED <<detector_vars, engine_vars, resolver_vars>>
    /\ UNCHANGED <<registry_vars, simulator_vars, modbus_vars, index_vars,
                   parser_vars, dispatcher_vars, gateway_vars,
                   summary_vars>>

\* the health check of the device the monitor waits on is answered: the
\* status is written into the device the loop holds, in the dict or not, and
\* the loop goes on
health_response(response) ==
    LET i == monitor.index
        checked == [devices EXCEPT
                      ![i].status = IF response = "ok" THEN "online" ELSE "offline",
                      ![i].last_seen = IF response = "ok" THEN <<now>>
                                       ELSE devices[i].last_seen]
    IN  /\ monitor.pc = "checking"
        /\ devices' = checked
        /\ monitor' = _monitor_device_status(checked,
              [monitor EXCEPT !.refreshed = @ \cup {devices[i].id}])
        /\ UNCHANGED <<device_counter, mcp_activity_log>>
        /\ UNCHANGED <<detector_vars, engine_vars, resolver_vars>>
        /\ UNCHANGED <<registry_vars, simulator_vars, modbus_vars, index_vars,
                       parser_vars, dispatcher_vars, gateway_vars,
                       summary_vars>>

\* one entry of self.mcp_activity_log
LogEntry(type, message, device_id) ==
    [type |-> type, message |-> message, device_id |-> device_id]

\* add_device until it returns or waits in _connect_device for the device's
\* data: without a simulator url nothing is awaited
add_device(protocol, name) ==
    LET device_id == <<"device_", device_counter + 1>>
        waits == _get_simulator_url(Lower(protocol)) # <<>>
        device == [id |-> device_id, protocol |-> Lower(protocol),
                   name |-> name, status |-> "offline", last_seen |-> <<>>,
                   removed |-> FALSE, connecting |-> waits]
    IN  /\ device_counter' = device_counter + 1
        /\ devices' = Append(devices, device)
        /\ mcp_activity_log' =
              IF waits THEN mcp_activity_log
              ELSE Append(mcp_activity_log,
                          LogEntry("info", "Device added", device_id))
        /\ UNCHANGED monitor
        /\ UNCHANGED <<detector_vars, engine_vars, resolver_vars>>
        /\ UNCHANGED <<registry_vars, simulator_vars, modbus_vars, index_vars,
                       parser_vars, dispatcher_vars, gateway_vars,
                       summary_vars>>

\* the rest of add_device: the GET of _connect_device is answered, the device
\* the coroutine holds is updated and the addition is logged
connect_response(i, response) ==
    /\ i \in 1..Len(devices)
    /\ devices[i].connecting
    /\ devices' = [devices EXCEPT
          ![i].connecting = FALSE,
          ![i].status = IF response = "ok" THEN "online" ELSE "offline",
          ![i].last_seen = IF response = "ok" THEN <<now>>
                           ELSE devices[i].last_seen]
    /\ mcp_activity_log' =
          (IF response = "ok"
           THEN Append(mcp_activity_log,
                       LogEntry("success", "Connected to", devices[i].id))
           ELSE mcp_activity_log)
             \o <<LogEntry("info", "Device added", devices[i].id)>>
    /\ UNCHANGED <<device_counter, monitor>>
    /\ UNCHANGED <<detector_vars, engine_vars, resolver_vars>>
    /\ UNCHANGED <<registry_vars, simulator_vars, modbus_vars, index_vars,
                   parser_vars, dispatcher_vars, gateway_vars,
                   summary_vars>>

\* remove_device: self.devices.pop(device_id) when the id is registered
remove_device(device_id) ==
    LET found == {i \in InDict(devices) : devices[i].id = device_id}
    IN  /\ devices' = [i \in 1..Len(devices) |->
                          IF i \in found
                          THEN [devices[i] EXCEPT !.removed = TRUE]
                          ELSE devices[i]]
        /\ mcp_activity_log' =
              IF found = {} THEN mcp_activity_log
              ELSE Append(mcp_activity_log,
                          LogEntry("warning", "Device removed", device_id))
        /\ monitor' =
              IF found # {} /\ monitor.pc = "checking"
              THEN [monitor EXCEPT !.removed = @ \cup {device_id}]
              ELSE monitor
        /\ UNCHANGED device_counter
        /\ UNCHANGED <<detector_vars, engine_vars, resolver_vars>>
        /\ UNCHANGED <<registry_vars, simulator_vars, modbus_vars, index_vars,
                       parser_vars, dispatcher_vars, gateway_vars,
                       summary_vars>>

---------------------------------------------------------------------------
(* The state after construction *)

RegistryInit == protocols = knowledge_base

\* the simulator that main() starts: BACnetSimulator()
SimulatorInit ==
    /\ bacnet_simulator = BACnetSimulator(1234, "Temperature Sensor Simulator")
    /\ discovered = <<>>

\* ModbusTCPSimulator(), before the first frame
ModbusInit ==
    /\ register_map = InitialRegisters
    /\ coil_map = InitialCoils
    /\ modbus_exchange = <<>>

\* VectorEmbeddingService() with an empty cache directory
IndexInit ==
    /\ embedding_service = VectorEmbeddingService("all-MiniLM-L6-v2")
    /\ embedding_files = EmptyDict
    /\ index_log = <<>>

ParserInit == documentation = <<>>

DispatcherInit ==
    /\ query_processor = EmptyDict
    /\ processed = <<>>
    /\ dispatched = <<>>

GatewayInit == lookups = <<>>

SummaryInit == summaries = <<>>

\* MCPDashboardIntegration.__init__; the monitor task has not run yet
DashboardInit ==
    /\ devices = <<>>
    /\ device_counter = 0
    /\ mcp_activity_log = <<>>
    /\ monitor = Sleeping(0, {}, {}, {}, "none")

Init ==
    /\ DetectorInit /\ EngineInit /\ ResolverInit
    /\ RegistryInit /\ SimulatorInit /\ ModbusInit /\ IndexInit
    /\ ParserInit /\ DispatcherInit
    /\ GatewayInit /\ SummaryInit /\ DashboardInit

\* the gateway before LocalAIEngine.initialize() has run
InitCold == Init /\ ~ai_initialized

---------------------------------------------------------------------------
(* The detector under observations of the demo descriptor *)

MaxCalls == 2

Naive200 == LastMaintenance("naive", 200)

\* readings around every bound of the temperature ranges, alone
RangeReadings ==
    {MkData(<<t>>, <<>>, <<>>) :
        t \in {0, Units(10), Units(12), Units(15), Units(22), Units(30), 385,
               Units(40), Units(42)}}

\* readings with humidity and with a maintenance date
OtherReadings ==
    {MkData(<<Units(22)>>, <<Units(85)>>, <<>>),
     MkData(<<Units(32)>>, <<Units(85)>>, <<>>),
     MkData(<<Units(22)>>, <<>>, <<Naive200>>),
     MkData(<<Units(22)>>, <<>>, <<LastMaintenance("naive", 30)>>),
     MkData(<<Units(42)>>, <<>>, <<LastMaintenance("aware", 200)>>),
     MkData(<<Units(22)>>, <<>>, <<LastMaintenance("invalid", 0)>>)}

BareReadings ==
    {MkData(<<t>>, <<>>, <<>>) : t \in {0, Units(100), Units(101)}}

Observations ==
    ({HvacSpec} \X (RangeReadings \cup OtherReadings)) \cup ({BareSpec} \X BareReadings)

Scores == {<<50, 100>>, <<95, 100>>}

Detect ==
    /\ calls < MaxCalls
    /\ \E o \in Observations, score \in Scores :
          detect_anomalies("hvac_001", o[1], o[2], score)

Next == Detect

Spec == Init /\ [][Next]_vars

---------------------------------------------------------------------------
(* The rolling window under long runs of observations *)

MaxHistCalls == 11

MaxNow == 1

HistReadings == {MkData(<<0>>, <<>>, <<>>), MkData(<<Units(22)>>, <<>>, <<>>)}

HistDetect ==
    /\ calls < MaxHistCalls
    /\ \E data \in HistReadings :
          detect_anomalies("hvac_001", HvacSpec, data, <<50, 100>>)

HistTick == Tick(MaxNow)

NextHistory == HistDetect \/ HistTick

SpecHistory == InitCold /\ [][NextHistory]_vars

---------------------------------------------------------------------------
(* The protocol engine under handshakes with every kind of peer *)

MaxHandshakes == 1

Addresses == {"10.0.0.5"}

\* device_spec["endpoints"] of the REST device
RestEndpoints == [temperature |-> "/api/temperature", status |-> "/api/status"]

RestResponses == {"ok", "ok_bad_json", "http_error", "transport_error"}

Peers == {"reply", "late_reply", "silent", "foreign", "send_error"}

Implement ==
    /\ Cardinality(DOMAIN handshake) < MaxHandshakes
    /\ \E protocol \in {"rest", "bacnet_ip", "modbus_tcp"}, address \in Addresses,
          peer \in Peers :
          implement_protocol(protocol, address, RestEndpoints, peer)

RestResponse ==
    \E task \in DOMAIN handshake, response \in RestResponses :
        rest_response(task, response)

BacnetRetry ==
    \E task \in DOMAIN handshake, peer \in Peers : bacnet_retry(task, peer)

ClockTick == Tick(MaxNow)

NextHandshake == Implement \/ RestResponse \/ BacnetRetry \/ ClockTick

SpecHandshake == InitCold /\ [][NextHandshake]_vars

---------------------------------------------------------------------------
(* The protocol engine under reads, with devices that answer the handshake *)

MaxSessions == 2

MaxReads == 2

Queries == {{"temperature", "temp"}, {"humidity"}, {"status"}, {}}

ReadResponses == {"ok", "http_error", "transport_error"}

ReadPeers == {"reply", "late_reply", "silent"}

Connect ==
    /\ Cardinality(DOMAIN handshake) < MaxSessions
    /\ \E protocol \in {"rest", "bacnet_ip"}, address \in Addresses :
          implement_protocol(protocol, address, RestEndpoints, "reply")

Accepted == \E task \in DOMAIN handshake : rest_response(task, "ok")

QueryDevice ==
    /\ Cardinality(DOMAIN reads) < MaxReads
    /\ \E connection_id \in DOMAIN active_connections, query \in Queries,
          peer \in ReadPeers :
          query_device(connection_id, query, peer)

RestReadResponse ==
    \E q \in DOMAIN reads, response \in ReadResponses : rest_read_response(q, response)

ReadsTick == Tick(MaxNow)

NextReads == Connect \/ Accepted \/ QueryDevice \/ RestReadResponse \/ ReadsTick

SpecReads == InitCold /\ [][NextReads]_vars

\* the event loop runs every task that is ready
FairReads == SpecReads /\ WF_vars(NextReads)

---------------------------------------------------------------------------
(* Device context resolution: HybridGateway (src/src/gateway/hybrid_gateway.py), *)
(* CloudContextService (src/src/cloud/context_service.py) and the device         *)
(* classifier of LocalAIEngine (src/src/ml/local_ai_engine.py).                  *)
(* Optional fields are <<>> (None) or <<value>>; confidences are hundredths and  *)
(* similarities ten-thousandths.                                                 *)

\* the device types of _scores_to_device_type, in index order
DeviceTypes ==
    <<"rest_api_device", "bacnet_device", "modbus_device", "opcua_device",
      "unknown_device">>

\* what the classifier reads of network_data
_extract_network_features(network_data) ==
    [port |-> network_data.port, protocol |-> network_data.protocol]

\* the port rules of the rule-based fallback
_classify_device_from_features(features) ==
    IF features.port = 80 \/ features.port = 8080 THEN "rest_api_device"
    ELSE IF features.port = 47808 THEN "bacnet_device"
    ELSE IF features.port = 502 THEN "modbus_device"
    ELSE IF features.port = 4840 THEN "opcua_device"
    ELSE "unknown_device"

\* LocalAIEngine.classify_device_type: the argmax of a linear model whose
\* weights are drawn at load time, so a fixed function of the features; drawn
\* is the type those weights give to features not classified before
classify_device_type(network_data, drawn) ==
    LET features == _extract_network_features(network_data)
    IN  IF ~ai_initialized THEN _classify_device_from_features(features)
        ELSE Get(classifier, features, drawn)

_create_device_fingerprint(network_data, protocol) ==
    [protocol |-> protocol, port |-> network_data.port,
     device_id |-> network_data.device_id, vendor_id |-> network_data.vendor_id,
     model_name |-> network_data.model_name]

\* an optional field inside an f-string: None is printed as "None"
Str(optional) == IF optional = <<>> THEN "None" ELSE optional[1]

\* md5(f"{protocol}_{port}_{vendor_id}_{model_name}").hexdigest(), the same in
\* HybridGateway and CloudContextService: the digest stands for the text
\* hashed, device_id and firmware_version are not part of it
_generate_cache_key(fingerprint) ==
    [md5 |-> <<fingerprint.protocol, fingerprint.port,
               Str(fingerprint.vendor_id), Str(fingerprint.model_name)>>]

\* the lookup that never finds the key
Cached_Never(cache, cache_key) == FALSE

\* "if cache_key in self.device_contexts", "if cache_key in self.request_cache"
Cached(cache, cache_key) == cache_key \in DOMAIN cache

Identification(device_type, manufacturer, model, confidence) ==
    [device_type |-> device_type, manufacturer |-> manufacturer,
     model |-> model, confidence |-> confidence]

\* FreeLLMService._simulate_llm_identification
_simulate_llm_identification(fingerprint) ==
    IF fingerprint.protocol = "BACnet" /\ fingerprint.port = 47808
    THEN Identification("hvac_controller", "Honeywell",
                        "T6 Pro Smart Thermostat", 92)
    ELSE IF fingerprint.protocol = "BACnet" /\ fingerprint.vendor_id = <<"260">>
    THEN Identification("building_controller", "Johnson Controls",
                        "Metasys NAE55", 88)
    ELSE IF fingerprint.protocol = "REST" /\ fingerprint.port = 8000
    THEN Identification("environmental_sensor", "Sensirion",
                        "SHT40 Temperature/Humidity Sensor", 85)
    ELSE Identification("unknown_device", "unknown", "unknown", 10)

\* VectorDatabase.device_docs after _initialize_sample_docs, in insertion order
DocOrder == <<"honeywell_t6_pro", "sensirion_sht40">>

device_docs ==
    [honeywell_t6_pro |->
        [device_type |-> "hvac_controller", manufacturer |-> "Honeywell",
         model |-> "T6 Pro Smart Thermostat", protocol |-> "BACnet"],
     sensirion_sht40 |->
        [device_type |-> "environmental_sensor", manufacturer |-> "Sensirion",
         model |-> "SHT40 Temperature/Humidity Sensor", protocol |-> "REST"]]

\* the cosine of _generate_query_embedding(f"{manufacturer} {model}
\* {device_type}") and _generate_embedding(doc): both embeddings are the 16
\* bytes of an md5 digest, the document's text ends in its protocol, so the
\* cosine is fixed by the two texts
CosineSimilarity(identification, device_id) ==
    LET row == IF identification.manufacturer = "Honeywell" THEN <<7250, 6595>>
               ELSE IF identification.manufacturer = "Johnson Controls"
               THEN <<7099, 7818>>
               ELSE IF identification.manufacturer = "Sensirion"
               THEN <<6561, 6614>>
               ELSE <<7817, 6922>>
    IN  IF device_id = "honeywell_t6_pro" THEN row[1] ELSE row[2]

\* VectorDatabase.search_similar_devices(query_embedding, top_k=1): a stable
\* sort by similarity, largest first
search_similar_devices(identification) ==
    LET similarity(i) == CosineSimilarity(identification, DocOrder[i])
        best == CHOOSE i \in 1..Len(DocOrder) :
                    \A j \in 1..Len(DocOrder) :
                        \/ similarity(i) > similarity(j)
                        \/ similarity(i) = similarity(j) /\ i <= j
    IN  <<[device_id |-> DocOrder[best], similarity |-> similarity(best)]>>

DeviceContext(device_id, device_doc, similarity, confidence) ==
    [device_id |-> device_id, device_type |-> device_doc.device_type,
     manufacturer |-> device_doc.manufacturer, model |-> device_doc.model,
     vector_similarity |-> similarity, confidence |-> confidence]

\* CloudContextService.get_device_context on a service whose request_cache is
\* cache: the context returned (<<>> = None), the cache afterwards, and
\* whether identification and vector search ran
DeviceContextFor(cache, fingerprint) ==
    LET cache_key == _generate_cache_key(fingerprint)
        identification == _simulate_llm_identification(fingerprint)
        similar_devices == search_similar_devices(identification)
    IN  IF Cached(cache, cache_key)
        THEN [context |-> <<cache[cache_key]>>, request_cache |-> cache,
              searched |-> FALSE]
        ELSE IF similar_devices = <<>>
        THEN [context |-> <<>>, request_cache |-> cache, searched |-> TRUE]
        ELSE
        LET top == similar_devices[1]
            context == DeviceContext(top.device_id, device_docs[top.device_id],
                                     top.similarity, identification.confidence)
        IN  [context |-> <<context>>,
             request_cache |-> Put(cache, cache_key, context),
             searched |-> TRUE]

\* HybridGateway._request_cloud_context: a CloudContextService is built for
\* the request, so its request_cache is empty
_request_cloud_context(fingerprint) == DeviceContextFor(EmptyDict, fingerprint)

\* one entry of the record of resolutions
Resolution(via, cache_key, from_cache, searched, context) ==
    [via |-> via, cache_key |-> cache_key, from_cache |-> from_cache,
     searched |-> searched, context |-> context,
     result |-> IF context = <<>> THEN "not_available" ELSE "success"]

MaxSightings == 3

\* the record of resolutions keeps the last MaxSightings of them
Logged(resolution) == LastN(Append(resolved, resolution), MaxSightings)

\* HybridGateway.initialize: LocalAIEngine.initialize() leaves its models
\* loaded, or not when loading raised
initialize ==
    /\ ~gateway_initialized
    /\ gateway_initialized' = TRUE
    /\ ai_initialized' \in BOOLEAN
    /\ UNCHANGED <<anomaly_history, device_baselines, pattern_history, now,
                   calls, last_call, observed>>
    /\ UNCHANGED <<classifier, device_contexts, request_cache, resolved>>
    /\ UNCHANGED engine_vars
    /\ UNCHANGED ext_vars

\* HybridGateway.handle_device_connection, past "Gateway not initialized"
handle_device_connection(network_data, drawn) ==
    LET protocol == classify_device_type(network_data, drawn)
        fingerprint == _create_device_fingerprint(network_data, protocol)
        cache_key == _generate_cache_key(fingerprint)
        cloud == _request_cloud_context(fingerprint)
    IN  /\ gateway_initialized
        /\ classifier' =
              IF ai_initialized
              THEN Put(classifier, _extract_network_features(network_data), protocol)
              ELSE classifier
        /\ IF Cached(device_contexts, cache_key)
           THEN /\ device_contexts' = device_contexts
                /\ resolved' = Logged(
                      Resolution("gateway", cache_key, TRUE, FALSE,
                                 <<device_contexts[cache_key]>>))
           ELSE IF cloud.context # <<>>
           THEN /\ device_contexts' = Put(device_contexts, cache_key, cloud.context[1])
                /\ resolved' = Logged(
                      Resolution("gateway", cache_key, FALSE, cloud.searched,
                                 cloud.context))
           ELSE /\ device_contexts' = device_contexts
                /\ resolved' = Logged(
                      Resolution("gateway", cache_key, FALSE, cloud.searched, <<>>))
        /\ UNCHANGED <<gateway_initialized, request_cache>>
        /\ UNCHANGED detector_vars
        /\ UNCHANGED engine_vars
        /\ UNCHANGED ext_vars

\* CloudContextService.get_device_context called on a service that is kept
get_device_context(fingerprint) ==
    LET cloud == DeviceContextFor(request_cache, fingerprint)
    IN  /\ request_cache' = cloud.request_cache
        /\ resolved' = Logged(
              Resolution("cloud", _generate_cache_key(fingerprint),
                         ~cloud.searched, cloud.searched, cloud.context))
        /\ UNCHANGED <<gateway_initialized, classifier, device_contexts>>
        /\ UNCHANGED detector_vars
        /\ UNCHANGED engine_vars
        /\ UNCHANGED ext_vars

\* hashlib.md5(text).hexdigest() of the key texts the gateway and the cloud
\* service hash: the keys of self.device_contexts as Python holds them
hexdigest(cache_key) ==
    LET text == cache_key.md5
    IN
    CASE text = <<"rest_api_device", 47808, "260", "Metasys NAE55">> -> "2035f3593682ff927c0f7d314d938b9d"
      [] text = <<"bacnet_device", 47808, "260", "Metasys NAE55">> -> "12586b99fe07049aa65f7a6d7cab94e5"
      [] text = <<"modbus_device", 47808, "260", "Metasys NAE55">> -> "7a405d6716d47a1c0c540476179dff4f"
      [] text = <<"opcua_device", 47808, "260", "Metasys NAE55">> -> "5f5221f8aa42c472357fb450965446a3"
      [] text = <<"unknown_device", 47808, "260", "Metasys NAE55">> -> "e23632144e486172a604c17a83bd5bcc"
      [] text = <<"rest_api_device", 8000, "None", "SHT40">> -> "c0a5148194c97a844a0ab71304a01d69"
      [] text = <<"bacnet_device", 8000, "None", "SHT40">> -> "9e9a9d08b5a8624f45bdee9fbd2ddfde"
      [] text = <<"modbus_device", 8000, "None", "SHT40">> -> "eb946c78014bba80650ab2eefe2e0d80"
      [] text = <<"opcua_device", 8000, "None", "SHT40">> -> "9c6706932b6b8c86ee6827e2b5429721"
      [] text = <<"unknown_device", 8000, "None", "SHT40">> -> "68a9d2ed1f44619d570d5381ef672f6d"
      [] text = <<"rest_api_device", 502, "None", "None">> -> "e86fcde9433955985cc8cc332276729a"
      [] text = <<"bacnet_device", 502, "None", "None">> -> "6e36380423bf3104a31c2d0351d74def"
      [] text = <<"modbus_device", 502, "None", "None">> -> "b83cc104a5ec031f870f1f8800473fb4"
      [] text = <<"opcua_device", 502, "None", "None">> -> "a9682283558af159534ef89f6898bbaa"
      [] text = <<"unknown_device", 502, "None", "None">> -> "017f29495f85cec896f1f0d59eba52b1"
      [] text = <<"BACnet", 47808, "260", "Metasys NAE55">> -> "85308b8cbab8d7fb2bb2a2f3f7798905"
      [] text = <<"BACnet", 47809, "260", "Metasys NAE55">> -> "c41b57d5103486ad15fb12c2deb1783b"
      [] text = <<"REST", 8000, "None", "SHT40">> -> "3a4eafe7c0be1d32f46d4259743e4d27"
      [] text = <<"Modbus", 502, "None", "None">> -> "f74a00ae5ab1ffeda10d1d2ae1d559f0"

\* documentation["error_codes"] of the sample documents, as the context holds
\* them
error_codes ==
    [honeywell_t6_pro |->
        [E001 |-> "Temperature sensor failure - Check sensor connection and calibration",
         E002 |-> "Communication timeout - Verify network connectivity",
         E003 |-> "Setpoint out of range - Adjust setpoint within valid range",
         E004 |-> "Fan motor fault - Check fan motor and wiring",
         E005 |-> "Display error - Reset thermostat or replace display"],
     sensirion_sht40 |->
        [S001 |-> "Sensor reading out of range - Check sensor calibration",
         S002 |-> "Communication error - Verify network connection",
         S003 |-> "Sensor calibration required - Perform calibration procedure",
         S004 |-> "Power supply issue - Check power connections",
         S005 |-> "Sensor drift detected - Recalibrate or replace sensor"]]

\* "device_id in self.device_contexts" and self.device_contexts[device_id]:
\* the dict is keyed by hexdigests, device_id is compared with them as a str
ContextOf(device_id) ==
    LET keys == {k \in DOMAIN device_contexts : hexdigest(k) = device_id}
    IN  IF keys = {} THEN <<>>
        ELSE <<device_contexts[CHOOSE k \in keys : TRUE]>>

\* HybridGateway.get_device_status
get_device_status(device_id) ==
    LET context == ContextOf(device_id)
    IN  /\ lookups' = Append(lookups,
              [via |-> "get_device_status", device_id |-> device_id,
               error |-> IF context = <<>> THEN "Device not found" ELSE "",
               context |-> context, error_description |-> ""])
        /\ UNCHANGED <<detector_vars, engine_vars, resolver_vars>>
        /\ UNCHANGED <<registry_vars, simulator_vars, modbus_vars, index_vars,
                       parser_vars, dispatcher_vars, summary_vars,
                       dashboard_vars>>

\* HybridGateway.troubleshoot_device
troubleshoot_device(device_id, error_code) ==
    LET context == ContextOf(device_id)
        known == error_codes[context[1].device_id]
    IN  /\ lookups' = Append(lookups,
              [via |-> "troubleshoot_device", device_id |-> device_id,
               error |-> IF context = <<>> THEN "Device not found" ELSE "",
               context |-> context,
               error_description |->
                   IF context = <<>> THEN ""
                   ELSE IF error_code \in DOMAIN known THEN known[error_code]
                   ELSE "Unknown error code"])
        /\ UNCHANGED <<detector_vars, engine_vars, resolver_vars>>
        /\ UNCHANGED <<registry_vars, simulator_vars, modbus_vars, index_vars,
                       parser_vars, dispatcher_vars, summary_vars,
                       dashboard_vars>>

---------------------------------------------------------------------------
(* The resolver under repeated sightings of a few devices *)

NetworkData(port, protocol, device_id, vendor_id, model_name) ==
    [port |-> port, protocol |-> protocol, device_id |-> device_id,
     vendor_id |-> vendor_id, model_name |-> model_name]

\* the two devices of the gateway demo, a second controller of the same
\* make, and a device that advertises nothing
Sightings ==
    {NetworkData(47808, "udp", "12345", <<"260">>, <<"Metasys NAE55">>),
     NetworkData(47808, "udp", "67890", <<"260">>, <<"Metasys NAE55">>),
     NetworkData(8000, "tcp", "sensor_001", <<>>, <<"SHT40">>),
     NetworkData(502, "tcp", "plc_7", <<>>, <<>>)}

\* fingerprints handed to the cloud service directly
Fingerprints ==
    {_create_device_fingerprint(
         NetworkData(47808, "udp", "12345", <<"260">>, <<"Metasys NAE55">>), "BACnet"),
     _create_device_fingerprint(
         NetworkData(47809, "udp", "12346", <<"260">>, <<"Metasys NAE55">>), "BACnet"),
     _create_device_fingerprint(
         NetworkData(8000, "tcp", "sensor_001", <<>>, <<"SHT40">>), "REST"),
     _create_device_fingerprint(
         NetworkData(502, "tcp", "plc_7", <<>>, <<>>), "Modbus")}

\* the types the loaded weights may give to features
Drawn(network_data) ==
    IF _extract_network_features(network_data) \in DOMAIN classifier
    THEN {classifier[_extract_network_features(network_data)]}
    ELSE {DeviceTypes[i] : i \in 1..Len(DeviceTypes)}

Initialize == initialize

Sighting ==
    /\ Len(resolved) < MaxSightings
    /\ \E network_data \in Sightings :
          \E drawn \in Drawn(network_data) :
              handle_device_connection(network_data, drawn)

Lookup ==
    /\ Len(resolved) < MaxSightings
    /\ \E fingerprint \in Fingerprints : get_device_context(fingerprint)

NextResolver == Initialize \/ Sighting \/ Lookup

SpecResolver == InitCold /\ [][NextResolver]_vars

---------------------------------------------------------------------------
(* The gateway cache under sightings that never stop *)

\* the devices of the gateway demo, seen again and again
Resighting ==
    \E network_data \in {n \in Sightings : n.port # 502} :
        \E drawn \in Drawn(network_data) :
            handle_device_connection(network_data, drawn)

NextCache == Initialize \/ Resighting

SpecCache == InitCold /\ [][NextCache]_vars

\* the gateway keeps handling the connections that arrive
FairCache == SpecCache /\ WF_vars(NextCache)

---------------------------------------------------------------------------
(* Claims about the anomaly detector *)

StrategyNames == {Strategies[i] : i \in 1..Len(Strategies)}

Returned(report) == \E k \in 1..Len(last_call.result) : last_call.result[k] = report

\* C1: the six strategies are isolated: when one strategy raises while
\* processing an observation, every report the other strategies produced for
\* that observation is still in the list detect_anomalies returns.
C1_StrategiesIsolated ==
    \A s \in StrategyNames :
        \A j \in 1..Len(last_call.outputs[s].reports) :
            Returned(last_call.outputs[s].reports[j])

\* the range reports of the last call that are about parameter p
RangeReportsAbout(p) ==
    SelectSeq(last_call.outputs.range.reports, LAMBDA r : r.parameter = p)

DocumentedRange(p, which) ==
    Get(Parameters(last_call.device_spec)[p], which, <<Units(0), Units(100)>>)

Below(p, which) == last_call.current_data[p] < DocumentedRange(p, which)[1]

Above(p, which) == last_call.current_data[p] > DocumentedRange(p, which)[2]

OnBound(p, which) ==
    \/ last_call.current_data[p] = DocumentedRange(p, which)[1]
    \/ last_call.current_data[p] = DocumentedRange(p, which)[2]

ExactlyOne(reports, severity) ==
    Len(reports) = 1 /\ reports[1].severity = severity

\* C2: for every descriptor parameter present in the observation the range
\* strategy emits exactly one critical report when the value is outside
\* error_range, otherwise exactly one medium report when it is outside
\* warning_range, otherwise none.  Bounds are inclusive: a value on a
\* warning_range bound (inside error_range) yields no report, a value on an
\* error_range bound (which lies outside warning_range) yields one medium
\* report and no critical one.
C2_RangeSeverity ==
    \A p \in DOMAIN Parameters(last_call.device_spec) :
        LET reports == RangeReportsAbout(p)
        IN  IF p \notin DOMAIN last_call.current_data THEN reports = <<>>
            ELSE
            /\ (Below(p, "error_range") \/ Above(p, "error_range"))
                    => ExactlyOne(reports, "critical")
            /\ (/\ ~(Below(p, "error_range") \/ Above(p, "error_range"))
                /\ (Below(p, "warning_range") \/ Above(p, "warning_range")))
                    => ExactlyOne(reports, "medium")
            /\ (/\ ~(Below(p, "error_range") \/ Above(p, "error_range"))
                /\ ~(Below(p, "warning_range") \/ Above(p, "warning_range")))
                    => reports = <<>>
            /\ (/\ OnBound(p, "warning_range")
                /\ ~(Below(p, "error_range") \/ Above(p, "error_range")))
                    => reports = <<>>
            /\ (/\ OnBound(p, "error_range")
                /\ (Below(p, "warning_range") \/ Above(p, "warning_range")))
                    => ExactlyOne(reports, "medium")

\* a reading exactly on the upper error bound came back as one medium report
C2_Witness_OnErrorBound ==
    /\ calls > 0
    /\ last_call.device_spec = HvacSpec
    /\ "temperature" \in DOMAIN last_call.current_data
    /\ last_call.current_data["temperature"] = Units(40)
    /\ ExactlyOne(RangeReportsAbout("temperature"), "medium")

NonDecreasing(history) ==
    \A i \in 1..Len(history) - 1 : history[i].timestamp <= history[i+1].timestamp

\* C3: after any sequence of detect_anomalies calls the rolling history of
\* each device holds at most 10 entries, they are the 10 most recent
\* observations of that device in arrival order, and their timestamps are
\* non-decreasing.
C3_HistoryIsLastTen ==
    \A d \in DOMAIN observed :
        /\ d \in DOMAIN pattern_history
        /\ Len(pattern_history[d]) <= 10
        /\ pattern_history[d] = LastN(observed[d], 10)
        /\ NonDecreasing(pattern_history[d])

---------------------------------------------------------------------------
(* Claims about the protocol engine *)

Transient == {"transport_error", "timeout", "os_error"}

\* C4: only transient transport errors are retried: after an attempt that
\* was answered by a protocol-exception response (an HTTP status other than
\* 200) or by a response that fails to decode, no further attempt is made.
C4_OnlyTransientRetried ==
    \A task \in DOMAIN handshake :
        \A i \in 1..Len(handshake[task].outcomes) - 1 :
            handshake[task].outcomes[i] \in Transient

SameDevice(c1, c2) ==
    /\ active_connections[c1].protocol = active_connections[c2].protocol
    /\ active_connections[c1].device_address = active_connections[c2].device_address

\* C5: at most one live session exists per (protocol, device address): a
\* second implement_protocol call for a device that has a live session
\* registers no new session.
C5_OneSessionPerDevice ==
    \A c1 \in DOMAIN active_connections, c2 \in DOMAIN active_connections :
        SameDevice(c1, c2) => c1 = c2

InFlight(connection_id) ==
    {q \in DOMAIN reads : /\ reads[q].connection_id = connection_id
                          /\ reads[q].status = "in_flight"}

\* C6: operations on one session are serialized: no read is issued on a
\* session while an earlier read on that session is still in flight.
C6_ReadsSerialized ==
    \A connection_id \in DOMAIN active_connections :
        Cardinality(InFlight(connection_id)) <= 1

\* the confirmed requests (APDU type 0x00) sent on a socket, oldest first
ConfirmedRequests(socket) == SelectSeq(sent[socket], LAMBDA frame : frame[17] = 0)

\* C7: within one BACnet session no two consecutive ReadProperty requests
\* carry the same invoke_id.
C7_InvokeIdChanges ==
    \A socket \in DOMAIN sent :
        \A i \in 1..Len(ConfirmedRequests(socket)) - 1 :
            InvokeId(ConfirmedRequests(socket)[i])
                # InvokeId(ConfirmedRequests(socket)[i + 1])

\* C8: a BACnet read returns only the response that answers its own request,
\* never a datagram that answers an earlier request of the session.
C8_OwnResponseOnly ==
    \A q \in DOMAIN reads :
        (reads[q].result = "success" /\ reads[q].request_no > 0)
            => reads[q].answered = reads[q].request_no

\* every connection id the engine can register within the bounds
ConnectionIds ==
    [protocol : {"rest", "bacnet_ip"}, device_address : Addresses,
     stamp : 0..(MaxNow + 1)]

\* C9: every session is eventually destroyed: a session in the live-session
\* table is eventually removed from it.
C9_SessionsEventuallyClosed ==
    \A c \in ConnectionIds :
        (c \in DOMAIN active_connections) ~> (c \notin DOMAIN active_connections)

\* the handshake made every attempt it may make and each failed in transport
Exhausted(h) ==
    /\ Len(h.outcomes) = RetryAttempts(h.protocol)
    /\ \A i \in 1..Len(h.outcomes) : h.outcomes[i] \in Transient

\* C10: a handshake makes at most retry_attempts attempts, the count of the
\* ProtocolSpec; when every attempt failed with a transport error the call
\* has returned that error and no session was registered by it.
C10_BoundedHandshake ==
    \A task \in DOMAIN handshake :
        LET h == handshake[task]
        IN  /\ h.protocol \in DOMAIN knowledge_base =>
                 Len(h.outcomes) <= knowledge_base[h.protocol].timing_requirements.retry_attempts
            /\ (h.protocol \in DOMAIN knowledge_base /\ Exhausted(h)) =>
                 /\ h.pc = "done"
                 /\ h.result = h.outcomes[Len(h.outcomes)]
                 /\ h.registered = <<>>
                 /\ \A c \in DOMAIN active_connections :
                        active_connections[c].resource # task

\* a REST handshake gave up after its last attempt, each one failed in transport
C10_Witness_Exhausted ==
    \E task \in DOMAIN handshake :
        /\ handshake[task].protocol = "rest"
        /\ Exhausted(handshake[task])
        /\ handshake[task].pc = "done"

\* C11: retries follow an exponential backoff: the first wait of a handshake
\* is the base delay of its ProtocolSpec and each further wait is longer than
\* the wait before it.
C11_BackoffGrows ==
    \A task \in DOMAIN handshake :
        LET waits == handshake[task].waits
        IN  /\ Len(waits) > 0 => waits[1] = RetryDelay(handshake[task].protocol)
            /\ \A i \in 1..Len(waits) - 1 : waits[i + 1] > waits[i]

\* the baseline the drift strategy compared the last observation against
BaselineOfLastCall == device_baselines[last_call.device_id]

\* the drift reports of the last call that are about parameter p
TrendReportsAbout(p) ==
    SelectSeq(last_call.outputs.trend.reports, LAMBDA r : r.parameter = p)

\* the relative deviation of p from its baseline is above pct percent
DriftAbove(p, pct) ==
    Abs(last_call.current_data[p] - BaselineOfLastCall[p]) * 100
        > pct * Abs(BaselineOfLastCall[p])

\* C12: the drift strategy reports a parameter exactly when its relative
\* deviation from the baseline exceeds 20%; the report is medium unless the
\* deviation exceeds 50%, when it is high; maintenance_required is true
\* exactly when the severity is high.
C12_DriftSeverity ==
    (calls > 0 /\ last_call.outputs.trend.status = "returned") =>
        \A p \in DOMAIN Parameters(last_call.device_spec) :
            LET reports == TrendReportsAbout(p)
            IN  IF p \notin DOMAIN last_call.current_data
                   \/ p \notin DOMAIN BaselineOfLastCall
                THEN reports = <<>>
                ELSE /\ Len(reports) = (IF DriftAbove(p, 20) THEN 1 ELSE 0)
                     /\ \A i \in 1..Len(reports) :
                          /\ reports[i].severity =
                                (IF DriftAbove(p, 50) THEN "high" ELSE "medium")
                          /\ reports[i].maintenance_required
                                <=> (reports[i].severity = "high")

\* the observations of device d that carry parameter p, oldest first (the
\* runs checked are shorter than the window observed keeps)
ObservationsOf(d, p) == SelectSeq(observed[d], LAMBDA o : p \in DOMAIN o.data)

\* C13: the drift baseline of a parameter is the first value ever observed
\* for that parameter on the device: once the parameter has been observed the
\* baseline holds that first value, in every later state, and the drift
\* reports of the parameter are computed from it.
C13_BaselineIsFirstValue ==
    \A d \in DOMAIN observed :
        \A p \in {ParamOrder[i] : i \in 1..Len(ParamOrder)} :
            ObservationsOf(d, p) # <<>> =>
                /\ d \in DOMAIN device_baselines
                /\ p \in DOMAIN device_baselines[d]
                /\ device_baselines[d][p] = ObservationsOf(d, p)[1].data[p]
                /\ d = last_call.device_id =>
                      \A i \in 1..Len(TrendReportsAbout(p)) :
                          TrendReportsAbout(p)[i].expected_range =
                              <<ObservationsOf(d, p)[1].data[p] * 8,
                                ObservationsOf(d, p)[1].data[p] * 12>>

\* the maintenance reports of the last call for schedule entry t
MaintenanceReportsAbout(t) ==
    SelectSeq(last_call.outputs.maintenance.reports,
              LAMBDA r : r.anomaly_id.parts = <<"maintenance", t>>)

\* C14: for each maintenance_schedule entry a maintenance-overdue report is
\* emitted exactly when days_since_last_maintenance exceeds the entry's
\* interval; it is medium, and high exactly when the days exceed twice the
\* interval.
C14_MaintenanceOverdue ==
    (/\ calls > 0
     /\ last_call.outputs.maintenance.status = "returned"
     /\ MaintenanceChecked(last_call.device_spec, last_call.current_data)) =>
        \A t \in DOMAIN MaintenanceSchedule(last_call.device_spec) :
            LET days == last_call.current_data["last_maintenance"].days
                interval == MaintenanceSchedule(last_call.device_spec)[t]
                reports == MaintenanceReportsAbout(t)
            IN  /\ Len(reports) = (IF days > interval THEN 1 ELSE 0)
                /\ \A i \in 1..Len(reports) :
                      reports[i].severity =
                          (IF days > 2 * interval THEN "high" ELSE "medium")

\* the step function of the score: >0.9 critical, >0.7 high, >0.5 medium
SeverityStep(score) ==
    IF score[1] * 10 > 9 * score[2] THEN "critical"
    ELSE IF score[1] * 10 > 7 * score[2] THEN "high"
    ELSE IF score[1] * 10 > 5 * score[2] THEN "medium"
    ELSE "low"

\* C15: the learned strategy emits a report whenever, and only when, the
\* anomaly score of the observation is above 0.7, and every report's severity
\* is the step function of that score, on the learned path and on the
\* rule-based fallback path.
C15_ScoreDecidesReport ==
    (calls > 0 /\ last_call.outputs.ml.status = "returned") =>
        LET score == last_call.ml_score[1]
            reports == last_call.outputs.ml.reports
        IN  /\ (Len(reports) > 0) <=> (score[1] * 10 > 7 * score[2])
            /\ \A i \in 1..Len(reports) : reports[i].severity = SeverityStep(score)

\* the last call handed the demo descriptor an observation holding only a
\* temperature of t tenths
OnlyTemperature(t) ==
    /\ calls > 0
    /\ last_call.device_spec = HvacSpec
    /\ last_call.current_data = MkData(<<t>>, <<>>, <<>>)

\* C16: with temperature normal (18,26), warning (15,30), error (10,40), an
\* observation with temperature 38.5 yields exactly one report over all
\* strategies, of type range and severity medium; an observation with
\* temperature 42.0 yields a critical range report with maintenance_required.
C16_RangeScenario ==
    /\ OnlyTemperature(385) =>
          /\ Len(last_call.result) = 1
          /\ last_call.result[1].anomaly_type = "value_out_of_range"
          /\ last_call.result[1].severity = "medium"
    /\ OnlyTemperature(Units(42)) =>
          \E i \in 1..Len(last_call.result) :
              /\ last_call.result[i].anomaly_type = "value_out_of_range"
              /\ last_call.result[i].severity = "critical"
              /\ last_call.result[i].maintenance_required

\* the troubleshooting steps the descriptor of the last call documents for p
DocumentedSteps(p) ==
    IF p \in DOMAIN Parameters(last_call.device_spec)
    THEN Get(Parameters(last_call.device_spec)[p], "troubleshooting", <<>>)
    ELSE <<>>

\* every report of strategy s in the last call carries the documented steps
\* of its parameter
StepsFromDescriptor(s) ==
    \A i \in 1..Len(last_call.outputs[s].reports) :
        LET r == last_call.outputs[s].reports[i]
        IN  r.troubleshooting_steps = DocumentedSteps(r.parameter)

\* C17: remediation is never invented: range, drift and pattern reports
\* carry the troubleshooting steps the descriptor documents for their
\* parameter, maintenance reports are about an entry of the descriptor's
\* maintenance_schedule, environmental reports carry the fixed playbook.
C17_RemediationFromDescriptor ==
    /\ StepsFromDescriptor("range")
    /\ StepsFromDescriptor("trend")
    /\ StepsFromDescriptor("pattern")
    /\ StepsFromDescriptor("ml")
    /\ \A i \in 1..Len(last_call.outputs.maintenance.reports) :
          LET r == last_call.outputs.maintenance.reports[i]
          IN  /\ r.anomaly_id.parts[2] \in DOMAIN MaintenanceSchedule(last_call.device_spec)
              /\ r.troubleshooting_steps[1] = ScheduleStep(r.anomaly_id.parts[2])
    /\ \A i \in 1..Len(last_call.outputs.environmental.reports) :
          last_call.outputs.environmental.reports[i].troubleshooting_steps
              = EnvironmentalSteps

---------------------------------------------------------------------------
(* Claims about the device context resolver *)

\* acceptance thresholds a deployment may configure, in ten-thousandths
AcceptanceThresholds == {7000, 8000}

\* C18: the resolver returns a descriptor only when the top-1 cosine
\* similarity reaches the acceptance threshold: whatever threshold is
\* configured, no resolution hands out a descriptor whose similarity is
\* below it, and no such descriptor is in a cache.
C18_AcceptanceThreshold ==
    \A threshold \in AcceptanceThresholds :
        /\ \A i \in 1..Len(resolved) :
              resolved[i].context # <<>> =>
                  resolved[i].context[1].vector_similarity >= threshold
        /\ \A k \in DOMAIN device_contexts :
              device_contexts[k].vector_similarity >= threshold
        /\ \A k \in DOMAIN request_cache :
              request_cache[k].vector_similarity >= threshold

\* C19: after a device has been resolved once, a later sighting with the
\* same fingerprint digest is answered from the cache of the same resolver:
\* identification and vector search are not run for it and the descriptor
\* returned is the one returned before.
C19_RepeatSightingFromCache ==
    \A i \in 1..Len(resolved), j \in 1..Len(resolved) :
        (/\ i < j
         /\ resolved[i].via = resolved[j].via
         /\ resolved[i].cache_key = resolved[j].cache_key
         /\ resolved[i].result = "success") =>
            /\ resolved[j].from_cache
            /\ ~resolved[j].searched
            /\ resolved[j].context = resolved[i].context

\* the gateway resolved a device through the cloud and answered a later
\* sighting of the same digest from its cache
C19_Witness_SecondSighting ==
    \E i \in 1..Len(resolved), j \in 1..Len(resolved) :
        /\ i < j
        /\ resolved[i].via = "gateway" /\ resolved[j].via = "gateway"
        /\ resolved[i].cache_key = resolved[j].cache_key
        /\ resolved[i].searched /\ resolved[i].result = "success"
        /\ resolved[j].from_cache
        /\ resolved[j].context = resolved[i].context

\* every key the gateway can cache for the sightings checked
CacheKeys ==
    {_generate_cache_key(_create_device_fingerprint(n, DeviceTypes[t])) :
        n \in Sightings, t \in 1..Len(DeviceTypes)}

\* C20: resolver cache entries live only for a bounded window: every cached
\* descriptor is eventually dropped from the cache.
C20_CacheEntriesDropped ==
    \A k \in CacheKeys :
        (k \in DOMAIN device_contexts) ~> (k \notin DOMAIN device_contexts)

---------------------------------------------------------------------------
(* The registry under imports of JSON documents *)

MaxItems == 2

SpecData(name, port, retry_attempts, missing) ==
    [name |-> name, port |-> port,
     timing_requirements |->
        [request_timeout |-> 5, retry_attempts |-> retry_attempts,
         retry_delay |-> 5],
     missing |-> missing]

\* entries a document may hold: a Modbus/TCP spec, a REST spec on another
\* port, a spec without retries, and one without its "examples" key
SpecDatas ==
    {SpecData("Modbus TCP", 502, 3, {}),
     SpecData("REST API", 8080, 3, {}),
     SpecData("BACnet IP", 47808, 0, {}),
     SpecData("REST API", 80, 3, {"examples"})}

\* "mqtt" is no member of ProtocolType
JsonEntries == {[key |-> k, value |-> v] : k \in ProtocolType \cup {"mqtt"}, v \in SpecDatas}

RECURSIVE JsonDocuments(_)
JsonDocuments(n) ==
    IF n = 0 THEN {<<>>}
    ELSE JsonDocuments(n - 1) \cup
         {Append(d, e) : d \in {x \in JsonDocuments(n - 1) : Len(x) = n - 1},
                         e \in JsonEntries}

FromJson == \E json_data \in JsonDocuments(MaxItems) : from_json(json_data)

NextRegistry == FromJson

SpecRegistry == InitCold /\ [][NextRegistry]_vars

---------------------------------------------------------------------------
(* Discovery of simulators with several identities *)

\* device instance numbers: the default, two others and the largest
DeviceIds == {1234, 5678, 1, 4194302}

DeviceNames == {"Temperature Sensor Simulator", "AHU-3", "Chiller 1"}

\* values random.uniform may give around 72.0, 45.0 and 1013.0
DrawnSensorData ==
    {SensorData(t, h, p) : t \in {7000, 7400}, h \in {4000, 5000},
                           p \in {100300, 102300}}

StartSimulator ==
    \E device_id \in DeviceIds, device_name \in DeviceNames :
        start_simulator(device_id, device_name)

WhoIsExchange == \E drawn \in DrawnSensorData : who_is_exchange(drawn)

ReadPropertyExchange == \E query \in Queries : read_property_exchange(query)

NextDiscovery == StartSimulator \/ WhoIsExchange \/ ReadPropertyExchange

SpecDiscovery == InitCold /\ [][NextDiscovery]_vars

\* the gateway's caller keeps reading as long as a read changes anything
FairDiscovery == SpecDiscovery /\ WF_vars(ReadPropertyExchange)

---------------------------------------------------------------------------
(* The Modbus simulator under frames around the edges of its maps *)

\* a twelve-byte request: MBAP header, function code, address and quantity
\* (or value)
ModbusRequest(transaction_id, protocol_id, function_code, address, quantity) ==
    Pack16(transaction_id) \o Pack16(protocol_id) \o Pack16(6) \o
    <<UnitId, function_code>> \o Pack16(address) \o Pack16(quantity)

\* function code -> the first and the last address of its map
MapBounds ==
    (1 :> <<1, 5>>) @@ (2 :> <<10001, 10005>>) @@
    (3 :> <<40001, 40006>>) @@ (4 :> <<30001, 30008>>)

\* reads that start just before, at the start, at the end and just after
\* the map, of no, one, two, all and one more than all of its entries
ReadRequests ==
    UNION {{ModbusRequest(7, 0, fc, start, quantity) :
                start \in {MapBounds[fc][1] - 1, MapBounds[fc][1],
                           MapBounds[fc][2], MapBounds[fc][2] + 1},
                quantity \in {0, 1, 2, 5, 6, 7, 8, 9}} : fc \in 1..4}

WriteRequests ==
    {ModbusRequest(7, 0, 6, address, value) :
        address \in {30001, 40001, 40003, 40007}, value \in {29, 2500, 65535}}
    \cup
    {ModbusRequest(7, 0, 5, address, value) :
        address \in {1, 6}, value \in {0, 65280}}

\* frames that are cut short, carry another protocol id, an unsupported
\* function code or another transaction id
OtherRequests ==
    {<<0, 7, 0, 0, 0, 6, 1>>,
     <<0, 7, 0, 0, 0, 6, 1, 3>>,
     <<0, 7, 0, 0, 0, 6, 1, 3, 156, 65>>,
     <<0, 7, 0, 0, 0, 6, 1, 1, 0>>,
     ModbusRequest(7, 1, 3, 40001, 1),
     ModbusRequest(7, 0, 7, 40001, 1),
     ModbusRequest(7, 0, 16, 40001, 1),
     ModbusRequest(258, 0, 3, 40001, 2),
     ModbusRequest(258, 0, 3, 40001, 7),
     ModbusRequest(65535, 0, 4, 65535, 65535)}

ModbusRequests == ReadRequests \cup WriteRequests \cup OtherRequests

ProcessModbusRequest == \E data \in ModbusRequests : process_modbus_request(data)

NextModbus == ProcessModbusRequest

SpecModbus == InitCold /\ [][NextModbus]_vars

---------------------------------------------------------------------------
(* The vector index under adds, saves and loads *)

MaxIndexOps == 5

DeviceInfo(device_id, manufacturer, model, protocol) ==
    [device_id |-> device_id, manufacturer |-> manufacturer, model |-> model,
     protocol |-> protocol]

\* the thermostat of main(), a later revision of its descriptor, another
\* device, and a descriptor without device_id
Descriptors ==
    {DeviceInfo(<<"honeywell_t6_pro">>, "Honeywell", "T6 Pro Smart Thermostat", "BACnet"),
     DeviceInfo(<<"honeywell_t6_pro">>, "Honeywell", "T6 Pro Smart Thermostat", "Modbus"),
     DeviceInfo(<<"sensirion_sht40">>, "Sensirion", "SHT40", "REST"),
     DeviceInfo(<<>>, "Siemens", "QAA2061", "BACnet")}

Models == {"all-MiniLM-L6-v2", "all-mpnet-base-v2"}

Filepaths == {"vector_cache/embeddings.pkl"}

NewService ==
    /\ Len(index_log) < MaxIndexOps
    /\ \E model_name \in Models : new_service(model_name)

AddDevice ==
    /\ Len(index_log) < MaxIndexOps
    /\ \E device_info \in Descriptors : add_device_to_index(device_info)

SaveEmbeddings ==
    /\ Len(index_log) < MaxIndexOps
    /\ \E filepath \in Filepaths : save_embeddings(filepath)

LoadEmbeddings ==
    /\ Len(index_log) < MaxIndexOps
    /\ \E filepath \in Filepaths : load_embeddings(filepath)

NextIndex == NewService \/ AddDevice \/ SaveEmbeddings \/ LoadEmbeddings

SpecIndex == InitCold /\ [][NextIndex]_vars

---------------------------------------------------------------------------
(* The parser under documents of a few lines *)

MaxLines == 2

\* the lines a manual is made of
Lines ==
    {"Manufacturer: Honeywell;", "Model: T6 Pro;", "Protocol: BACnet IP;",
     "Object Type: AI Instance: 1;", "Fault E001: Sensor failure;",
     "Calibration: every 6 months;", "Endpoint: /api/temperature;",
     "Problem: no reading;", "It measures temperature and humidity;",
     "Installation guide for the wall unit;"}

RECURSIVE Texts(_)
Texts(n) ==
    IF n = 0 THEN {<<>>}
    ELSE LET shorter == Texts(n - 1)
         IN  shorter \cup {Append(text, line) :
                              text \in {t \in shorter : Len(t) = n - 1},
                              line \in Lines}

\* a disk that holds the same two-line manual under three names
Disk ==
    [path \in {"manual.pdf", "MANUAL.PDF", "notes.txt"} |->
        <<"Manufacturer: Honeywell;", "Object Type: AI Instance: 1;">>]

ParsePdf ==
    \E pages \in Texts(MaxLines) :
        parse_pdf([path \in {"manual.pdf"} |-> pages], "manual.pdf")

ParseStored ==
    \E pdf_path \in DOMAIN Disk \cup {"missing.pdf"} : parse_pdf(Disk, pdf_path)

NextParser == ParsePdf \/ ParseStored

SpecParser == InitCold /\ [][NextParser]_vars

---------------------------------------------------------------------------
(* The dispatcher under a few queries, before and after the models load *)

MaxQueries == 2

NaturalQueries ==
    {"", "what is the temperature in room 5?", "show humidity", "device status",
     "set temperature to 72", "compare pressure trend"}

LoadModels == initialize

ProcessNaturalQuery ==
    /\ Len(processed) < MaxQueries
    /\ \E query \in NaturalQueries :
          \E drawn \in {intent_classes[i] : i \in 1..Len(intent_classes)} :
             process_natural_query(query, drawn)

NextDispatcher == LoadModels \/ ProcessNaturalQuery

SpecDispatcher == InitCold /\ [][NextDispatcher]_vars

---------------------------------------------------------------------------
(* The dispatcher in front of established sessions *)

MaxDispatches == 1

ProcessQueryDynamically ==
    /\ Len(dispatched) < MaxDispatches
    /\ \E query \in NaturalQueries :
          \E drawn \in {intent_classes[i] : i \in 1..Len(intent_classes)} :
             \E responses \in [DOMAIN active_connections -> ReadResponses] :
                process_natural_query_dynamically(query, drawn, responses)

NextPlan == Connect \/ Accepted \/ LoadModels \/ ProcessQueryDynamically

SpecPlan == InitCold /\ [][NextPlan]_vars

---------------------------------------------------------------------------
(* Status and troubleshooting lookups after devices were handled *)

MaxLookups == 1

\* the ids a caller has for a handled device: the device_id it sent in
\* network_data, the device_id of the context that was resolved, and the
\* cache key the gateway filed the context under
CallerIds ==
    {n.device_id : n \in Sightings}
        \cup {device_contexts[k].device_id : k \in DOMAIN device_contexts}
        \cup {hexdigest(k) : k \in DOMAIN device_contexts}

GetDeviceStatus ==
    /\ Len(lookups) < MaxLookups
    /\ \E device_id \in CallerIds : get_device_status(device_id)

TroubleshootDevice ==
    /\ Len(lookups) < MaxLookups
    /\ \E device_id \in CallerIds, error_code \in {"E001", "S002", "X9"} :
          troubleshoot_device(device_id, error_code)

NextStatus == Initialize \/ Sighting \/ GetDeviceStatus \/ TroubleshootDevice

SpecStatus == InitCold /\ [][NextStatus]_vars

---------------------------------------------------------------------------
(* Summaries over the reports of several devices *)

MaxSummaryCalls == 2

MaxSummaries == 1

\* devices of one site: two controllers whose ids differ in the last digit
\* only, an air conditioner and a sensor
SummaryDevices == {"hvac_001", "hvac_0010", "ac_001", "sensor_7"}

SummaryDetect ==
    /\ calls < MaxSummaryCalls
    /\ \E device_id \in SummaryDevices :
          \E data \in {MkData(<<0>>, <<>>, <<>>), MkData(<<Units(28)>>, <<>>, <<>>),
                       MkData(<<Units(22)>>, <<>>, <<>>)} :
              detect_anomalies(device_id, HvacSpec, data, <<50, 100>>)

GetAnomalySummary ==
    /\ Len(summaries) < MaxSummaries
    /\ \E device_id \in SummaryDevices : get_anomaly_summary(device_id)

NextSummary == SummaryDetect \/ GetAnomalySummary

SpecSummary == InitCold /\ [][NextSummary]_vars

---------------------------------------------------------------------------
(* The dashboard's monitor while devices are added and removed *)

\* devices ever added; a dict of fewer than six entries is never resized
MaxDevices == 3

MaxPasses == 1

\* a health or data GET is answered 200, with another status, or fails
HealthResponses == {"ok", "bad_status", "error"}

DashboardAddDevice ==
    /\ device_counter < MaxDevices
    /\ \E protocol \in {"REST", "OPCUA"} : add_device(protocol, "Unit")

ConnectResponse ==
    \E i \in 1..Len(devices), response \in HealthResponses :
        connect_response(i, response)

RemoveDevice ==
    \E n \in 1..MaxDevices : remove_device(<<"device_", n>>)

MonitorPass == monitor.pass < MaxPasses /\ monitor_pass

HealthResponse == \E response \in HealthResponses : health_response(response)

NextMonitor ==
    DashboardAddDevice \/ ConnectResponse \/ RemoveDevice \/ MonitorPass \/ HealthResponse

SpecMonitor == InitCold /\ [][NextMonitor]_vars

---------------------------------------------------------------------------
(* Claims about the registry, the simulators and the ingestion services *)

\* C21: after startup no operation changes the ProtocolSpec registry: the set
\* of registered protocols and every field of every registered spec stay
\* equal to their startup values
C21_RegistryImmutable == protocols = knowledge_base

\* the three wire protocols of the gateway
WireProtocols == {"rest", "bacnet_ip", "modbus_tcp"}

\* every attempt the call made met a device that answered
ResponsiveDevice(h) ==
    \A i \in 1..Len(h.outcomes) : h.outcomes[i] \in {"ok", "i_am"}

\* C22: implement_protocol works for each of the three wire protocols: a call
\* for REST, BACnet/IP or Modbus/TCP against a responsive device completes
\* the handshake and returns a session id
C22_EveryWireProtocolConnects ==
    \A task \in DOMAIN handshake :
        LET h == handshake[task]
        IN  (h.protocol \in WireProtocols /\ h.pc = "done" /\ ResponsiveDevice(h))
                => (h.result = "success" /\ Len(h.registered) = 1)

\* C23: the Who-Is/I-Am exchange round-trips device identity: the I-Am a
\* simulator with device id N sends is decoded by the gateway to N
C23_IAmRoundTrip ==
    \A i \in 1..Len(discovered) :
        /\ discovered[i].device_info # <<>>
        /\ discovered[i].device_info[1].device_id = discovered[i].simulator

\* the parameter a BACnet object stands for in _parse_bacnet_query
ParameterOf(object_info) ==
    IF object_info.object_type = "AnalogInput" /\ object_info.object_instance = 1
    THEN "temperature"
    ELSE IF object_info.object_type = "AnalogInput" /\ object_info.object_instance = 2
    THEN "humidity"
    ELSE "status"

\* the quantity a unit measures
Quantity(units) ==
    IF units \in {"degrees_fahrenheit", "degrees_celsius"} THEN "temperature"
    ELSE IF units \in {"percent", "percent_relative_humidity"} THEN "humidity"
    ELSE "none"

\* C24: the value returned by read(s, p) carries p's declared unit: a
\* humidity read is never returned tagged with a temperature unit, nor a
\* temperature read with a unit of another quantity
C24_ReadCarriesDeclaredUnit ==
    \A q \in DOMAIN reads :
        (reads[q].result = "success" /\ reads[q].data # <<>>
            /\ ParameterOf(reads[q].target[1]) \in {"temperature", "humidity"})
        => Quantity(reads[q].data[1].units) = ParameterOf(reads[q].target[1])

\* the request is a complete read: no other protocol id, function 1 to 4,
\* address and quantity present
IsRead(data) ==
    /\ Len(data) >= 12
    /\ Unpack16(SubSeq(data, 3, 4)) = 0
    /\ data[8] \in 1..4

\* the addresses declared for the function code of the read
DeclaredMap(data) == MapBounds[data[8]][1]..MapBounds[data[8]][2]

StartOf(data) == Unpack16(SubSeq(data, 9, 10))

QuantityOf(data) == Unpack16(SubSeq(data, 11, 12))

\* the start address lies outside the declared map, or start+quantity spans
\* beyond it
OutsideMap(data) ==
    \/ StartOf(data) \notin DeclaredMap(data)
    \/ \E a \in StartOf(data)..(StartOf(data) + QuantityOf(data) - 1) :
          a \notin DeclaredMap(data)

\* the response is the simulator's exception frame for illegal data address
AnsweredWith02(exchange) ==
    exchange.response =
        create_error_response(Unpack16(SubSeq(exchange.request, 1, 2)), 2)

\* C25: a Modbus read whose start address lies outside the declared map, or
\* whose start+quantity spans beyond it, is answered with exception code
\* 0x02; a read lying wholly inside the declared map is never answered with
\* 0x02
C25_IllegalAddressOnReads ==
    \A i \in 1..Len(modbus_exchange) :
        IsRead(modbus_exchange[i].request)
            => (OutsideMap(modbus_exchange[i].request)
                    <=> AnsweredWith02(modbus_exchange[i]))

\* the response is an exception response: the high bit of its function code
\* byte is set
IsException(response) == Len(response) >= 8 /\ response[8] >= 128

\* the seven bytes of the MBAP header that answers the request, announcing
\* length bytes after the length field
MBAP(request, length) ==
    SubSeq(request, 1, 2) \o Pack16(0) \o Pack16(length) \o <<UnitId>>

\* the exception codes of the Modbus application protocol
ExceptionCodes == {1, 2, 3, 4, 5, 6, 8, 10, 11}

\* C26: every Modbus exception response consists of the MBAP header followed
\* by the request's function code with its high bit set and then a one-byte
\* exception code
C26_ExceptionFrameLayout ==
    \A i \in 1..Len(modbus_exchange) :
        LET request == modbus_exchange[i].request
            response == modbus_exchange[i].response
        IN  (Len(request) >= 8 /\ IsException(response))
                => /\ Len(response) = 9
                   /\ SubSeq(response, 1, 7) = MBAP(request, 3)
                   /\ response[8] = HighBitSet(request[8])
                   /\ response[9] \in ExceptionCodes

\* C27: adding a descriptor whose device_id is already in the vector index
\* replaces the earlier record: afterwards the record of that device_id holds
\* the later descriptor and the vector of the later descriptor
C27_LaterDescriptorReplaces ==
    (index_log # <<>> /\ index_log[Len(index_log)].replaced)
    => LET device_info == index_log[Len(index_log)].device_info[1]
           record == embedding_service.device_embeddings[DeviceIdOf(device_info)]
       IN  /\ record.device_info = device_info
           /\ record.embedding.text = DeviceText(device_info)

\* C28: the index dimension D is fixed at initialization and never changes,
\* and every stored vector has length D, after any sequence of add, save and
\* load operations
C28_DimensionFixed ==
    /\ embedding_service.dimension = Dimension(embedding_service.model)
    /\ \A device_id \in DOMAIN embedding_service.device_embeddings :
          embedding_service.device_embeddings[device_id].embedding.length
              = embedding_service.dimension

\* C29: ingestion never invents content.  Every parameter, error code and
\* maintenance entry of a parsed documentation corresponds to a match in the
\* text that was parsed (for a parameter: a match of an object or endpoint
\* pattern, or the mention of the quantity it is named after), and a part for
\* which the text yields no match is left absent instead of being filled with
\* defaults.
SupportedParameter(parameter, text) ==
    \/ \E i \in 1..Len(ParametersFound(text)) :
          ParametersFound(text)[i] = parameter
    \/ Len(parameter.name) = 1 /\ Mentions(text, parameter.name[1])

NothingInvented(doc) ==
    LET text == doc.raw_text
        maintenance == doc.maintenance_schedule
    IN  /\ \A i \in 1..Len(doc.parameters) :
              SupportedParameter(doc.parameters[i], text)
        /\ \A i \in 1..Len(doc.error_codes) :
              \E j \in 1..Len(ErrorCodesFound(text)) :
                 ErrorCodesFound(text)[j] = doc.error_codes[i]
        /\ \A i \in 1..Len(maintenance.requirements) :
              \E j \in 1..Len(RequirementsFound(text)) :
                 RequirementsFound(text)[j] = maintenance.requirements[i]
        /\ ErrorCodesFound(text) = <<>> => doc.error_codes = <<>>
        /\ RequirementsFound(text) = <<>> => maintenance.requirements = <<>>

C29_IngestionNeverInvents ==
    \A i \in 1..Len(documentation) :
       \A j \in 1..Len(documentation[i].parsed) :
          NothingInvented(documentation[i].parsed[j])

\* C30: for the same request text the rule-based path and the TinyML path of
\* the dispatcher produce the same operation plan, whichever weights the query
\* model was loaded with: the protocol actions of every result of the TinyML
\* path are those the rule-based path gives for its query.
C30_PathsAgree ==
    \A i \in 1..Len(processed) :
       processed[i].processing_method = "tinyml"
          => processed[i].protocol_actions
                = _fallback_query_processing(processed[i].query).protocol_actions

---------------------------------------------------------------------------
(* Claims about the dispatcher, the sessions and the monitors *)

\* the parameter a REST endpoint of the plan stands for
ResourceOf(endpoint) ==
    IF endpoint = "/api/temperature" THEN "temperature"
    ELSE IF endpoint = "/api/humidity" THEN "humidity"
    ELSE IF endpoint = "/status" THEN "status"
    ELSE "none"

\* C31: every step of the operation plan names the parameter extracted from
\* the request, and executing the step reads that parameter: on a session
\* that declares an endpoint for the parameter, the read goes to that endpoint
\* and to no other resource.
C31_PlanReadsItsParameter ==
    \A i \in 1..Len(dispatched) :
       LET d == dispatched[i]
           entities == d.ai_analysis.entities
           plan == d.ai_analysis.protocol_actions
       IN  entities.parameter # <<>> =>
              /\ \A j \in 1..Len(plan) :
                    ResourceOf(plan[j].endpoint) = entities.parameter[1]
              /\ \A c \in DOMAIN d.executed :
                    entities.parameter[1] \in DOMAIN d.connections[c].endpoints
                       => /\ d.executed[c].endpoint # <<>>
                          /\ d.executed[c].endpoint[1].endpoint
                                = d.connections[c].endpoints[entities.parameter[1]]

\* a detect_anomalies call that took its except branch and returned []
FailedCall ==
    /\ calls' = calls + 1
    /\ AnyRaised(last_call'.outputs)
    /\ last_call'.result = <<>>

\* C32: detect_anomalies is all-or-nothing with respect to detector state:
\* when a call fails and returns an empty list, the drift baselines, the
\* rolling observation history and the anomaly history are as they were
\* before the call.
C32_FailedCallLeavesState ==
    [][FailedCall => UNCHANGED <<device_baselines, pattern_history,
                                 anomaly_history>>]_vars

\* the call got as far as creating its UDP socket or its HTTP client
Acquired(h) == h.protocol \in {"rest", "bacnet_ip"} /\ h.outcomes # <<>>

\* C33: a failed implement_protocol releases what it acquired: whenever the
\* BACnet handshake ends in an error (timeout after the last retry, response
\* from an unexpected sender, send error) its UDP socket is closed, and
\* whenever the REST handshake ends in an error its HTTP client is closed.
C33_FailedHandshakeReleases ==
    \A task \in DOMAIN handshake :
        LET h == handshake[task]
        IN  (h.pc = "done" /\ h.result # "success" /\ Acquired(h)) => h.closed

\* the last exchange with the simulator was a read on an established session
ReadIssued ==
    /\ discovered # <<>>
    /\ discovered[1].read # <<>>
    /\ discovered[1].read[1].result # "no_object"

\* the last read was answered by a datagram of the simulator
ReadAcknowledged == ReadIssued /\ discovered[1].read[1].result = "success"

\* C34: a ReadProperty request built by the gateway is recognised as a
\* ReadProperty request by the simulator, so a read on an established session
\* is eventually acknowledged instead of timing out for ever
C34_ReadEventuallyAcknowledged == ReadIssued ~> ReadAcknowledged

\* the ids of the contexts the gateway holds after successful
\* handle_device_connection calls
ResolvedIds == {device_contexts[k].device_id : k \in DOMAIN device_contexts}

\* C35: after handle_device_connection has succeeded for a device,
\* get_device_status and troubleshoot_device called with the device_id of the
\* resolved context find that context instead of answering "Device not found"
C35_StatusFindsResolvedContext ==
    \A i \in 1..Len(lookups) :
        lookups[i].device_id \in ResolvedIds
            => /\ lookups[i].error = ""
               /\ lookups[i].context # <<>>
               /\ lookups[i].context[1].device_id = lookups[i].device_id

\* a well-formed request served by the simulator that reads quantity
\* registers of the input or the holding map and stays inside that map
RegisterReadInside(data) ==
    /\ Len(data) = 12
    /\ Unpack16(SubSeq(data, 3, 4)) = 0
    /\ data[8] \in {3, 4}
    /\ Unpack16(SubSeq(data, 11, 12)) >= 1
    /\ Unpack16(SubSeq(data, 9, 10)) >= MapBounds[data[8]][1]
    /\ Unpack16(SubSeq(data, 9, 10)) + Unpack16(SubSeq(data, 11, 12)) - 1
           <= MapBounds[data[8]][2]

\* C36: a register read of quantity q (function 0x03 or 0x04) inside the
\* declared map is answered with exactly q 16-bit values, a byte count of
\* 2 * q, whatever the types of the registers read
C36_ReadAnswersQuantity ==
    \A i \in 1..Len(modbus_exchange) :
        LET data == modbus_exchange[i].request
            response == modbus_exchange[i].response
            quantity == Unpack16(SubSeq(data, 11, 12))
        IN  RegisterReadInside(data)
                => /\ Len(response) = 9 + 2 * quantity
                   /\ response[8] = data[8]
                   /\ response[9] = 2 * quantity

\* the addresses of the input registers (3xxxx) of the declared map
InputRegisters == {a \in DOMAIN InitialRegisters : a \in 30001..39999}

\* a well-formed Write Single Register served by the simulator and addressed
\* to an input register
WritesInputRegister(data) ==
    /\ Len(data) = 12
    /\ Unpack16(SubSeq(data, 3, 4)) = 0
    /\ data[8] = 6
    /\ Unpack16(SubSeq(data, 9, 10)) \in InputRegisters

\* C37: input registers are read-only for clients: no sequence of requests
\* changes the value of an input register, and a Write Single Register
\* addressed to one is answered with an exception instead of being applied
C37_InputRegistersReadOnly ==
    /\ \A a \in InputRegisters : register_map[a] = InitialRegisters[a]
    /\ \A i \in 1..Len(modbus_exchange) :
          WritesInputRegister(modbus_exchange[i].request)
              => /\ Len(modbus_exchange[i].response) = 8
                 /\ modbus_exchange[i].response[8] >= 128

\* C38: every report in the anomaly history has a distinct anomaly_id,
\* including reports for the same device and parameter produced by
\* consecutive observations that arrive in quick succession
C38_DistinctAnomalyIds ==
    \A i \in 1..Len(anomaly_history), j \in 1..Len(anomaly_history) :
        i # j => anomaly_history[i].anomaly_id # anomaly_history[j].anomaly_id

\* the reports among the first n of the history that were produced for a
\* device
ProducedFor(device_id, n) ==
    {i \in 1..n : anomaly_history[i].anomaly_id.device = device_id}

\* C39: get_anomaly_summary(device_id) counts exactly the reports that were
\* produced for that device: a report produced for any other device is never
\* included in its totals, whatever the two devices' ids are
C39_SummaryCountsOwnReports ==
    \A i \in 1..Len(summaries) :
        summaries[i].summary.total_anomalies =
            Cardinality(ProducedFor(summaries[i].device_id, summaries[i].at))

\* the device has a simulator whose health the monitor can ask for
HasSimulator(device_id) ==
    \E i \in 1..Len(devices) :
        devices[i].id = device_id /\ _get_simulator_url(devices[i].protocol) # <<>>

\* the monitor has ended a pass
PassEnded == monitor.pc = "sleeping" /\ monitor.outcome # "none"

\* C40: the monitor is safe against concurrent registry changes: in every
\* pass, each device registered at the start of the pass and not removed
\* during it has its status refreshed, even when add_device or remove_device
\* runs while the monitor is suspended in a health check
C40_MonitorRefreshesRegistered ==
    PassEnded =>
        \A device_id \in monitor.start \ monitor.removed :
            HasSimulator(device_id) => device_id \in monitor.refreshed

====
